---- MODULE Spec2Model ----
(***************************************************************************)
(* TruthVote: the vote reconciliation of the Post component against the    *)
(* votes table and its realtime channel, the dual-model analysis           *)
(* aggregation of lib/analyzer.ts, the incremental Feed with the posts     *)
(* table and the edit/delete controls of its posts, and App's sign-in with *)
(* the users table and the placeholder clients of lib/supabase.ts.         *)
(***************************************************************************)
EXTENDS Integers, Sequences, FiniteSets, TLC

\* JavaScript null / undefined for the three-valued vote states.
NULL == "null"

\* Number of users other than the current user that may vote on the post.
NumOthers == 1

\* The currentUserName prop of the Post instance; the other users are 1..NumOthers.
currentUserName == 0

Users == 0..NumOthers

VoteTypes == {"true", "fake"}

\* Largest vote id the server hands out (gen_random_uuid() never runs out; the
\* uniqueness constraint keeps the table far below this cap).
MaxId == 2 * (NumOthers + 1)

VARIABLES
    \* ---- storage service: the votes of the post this Post instance shows
    postExists,      \* the posts row is still there
    serverVotes,     \* rows of table votes with post_id = id
    nextId,          \* next votes.id
    subscribed,      \* the channel votes-<id> has been joined
    events,          \* realtime events sent to this instance, not yet delivered
    \* ---- Post component state (useState)
    votes,           \* Vote[]
    userVote,        \* 'true' | 'fake' | null
    optimisticVote,  \* 'true' | 'fake' | null
    isVoting,        \* boolean
    \* ---- requests in flight
    fetchReq,        \* the select issued by fetchVotes
    voteReqs,        \* the inserts issued by handleVote, not yet returned
    alertShown,      \* alert() raised by the handler run that finished last
    hist,            \* history of this instance's own successful insert
    \* ---- lib/analyzer.ts
    openai,          \* module-level client: configured or null
    genAI,           \* module-level client: configured or null
    apc,             \* position of getAnalysis
    webIn,           \* outcome of the web lookup
    webContext,      \* value of const webContext
    openaiIn,        \* outcome of the OpenAI call
    geminiIn,        \* outcome of the Gemini call
    openaiRes,       \* settled promise of analyzeWithOpenAI
    geminiRes,       \* settled promise of analyzeWithGemini
    combined,        \* settled promise of getAnalysis
    provCalls,       \* imageUrl and the arguments passed to the two providers
    \* ---- storage service: table posts and its realtime channel
    postsTable,      \* rows of table posts
    nextPostId,      \* next posts.id / created_at
    feedChannel,     \* the channel posts-feed: joining, joined or closed
    feedEvents,      \* realtime events sent to the Feed, not yet delivered
    \* ---- Feed component state (useState) and the requests of its Post controls
    feedMounted,     \* the Feed instance is mounted
    posts,           \* PostData[]
    loading,         \* boolean
    feedFetch,       \* the select issued by fetchPosts
    postReqs,        \* insert / update / delete requests not yet returned
    feedAlert,       \* alert() raised by the handler run that finished last
    \* ---- Feed component, refetch variant
    refetches,       \* the selects of fetchPosts not yet returned
    refetchHist,     \* fetchPosts calls made so far, and the newest snapshot taken
    \* ---- CreatePost component and one Post in edit mode
    createPost,      \* content, imageUrl, isSubmitting and the awaited onCreatePost
    postEdit,        \* currentContent ... isSaving of the Post, and its awaited update
    \* ---- lib/supabase.ts, table users and App state per browser tab
    backend,         \* which client lib/supabase.ts exports
    usersTable,      \* rows of table users
    nextUserId,      \* next users.id
    currentUser,     \* useState<string | null>
    localStorage,    \* localStorage['truthvote-user'] of the browser the tabs run in
    showAuthModal,   \* boolean
    authReqs,        \* the upsert issued by handleAuth
    appAlert         \* alert() raised by the handler run that finished last

voteVars == <<postExists, serverVotes, nextId, subscribed, events, votes, userVote,
              optimisticVote, isVoting, fetchReq, voteReqs, alertShown, hist>>

analysisVars == <<openai, genAI, apc, webIn, webContext, openaiIn, geminiIn,
                  openaiRes, geminiRes, combined, provCalls>>

feedVars == <<postsTable, nextPostId, feedChannel, feedEvents, feedMounted, posts,
              loading, feedFetch, postReqs, feedAlert>>

appVars == <<backend, usersTable, nextUserId, currentUser, localStorage,
             showAuthModal, authReqs, appAlert>>

refetchVars == <<refetches, refetchHist>>

formVars == <<createPost, postEdit>>

vars == <<voteVars, analysisVars, feedVars, appVars, refetchVars, formVars>>

\* What the Post component and the votes table leave alone.
notVoteVars == <<analysisVars, feedVars, appVars, refetchVars, formVars>>

\* What lib/analyzer.ts leaves alone.
notAnalysisVars == <<voteVars, feedVars, appVars, refetchVars, formVars>>

\* What the Feed and the posts table leave alone.
notFeedVars == <<voteVars, analysisVars, appVars, refetchVars, formVars>>

\* What App and the users table leave alone.
notAppVars == <<voteVars, analysisVars, feedVars, refetchVars, formVars>>

\* What the refetching Feed leaves alone, besides the table and the channel.
notRefetchVars == <<voteVars, analysisVars, appVars, formVars>>

\* What CreatePost and a Post in edit mode leave alone, besides the table and the
\* Feed's list.
notFormVars == <<voteVars, analysisVars, appVars, refetchVars>>

(***************************************************************************)
(* Storage: table votes                                                    *)
(***************************************************************************)

Row(i, u, t) == [id |-> i, user_name |-> u, vote_type |-> t]

RECURSIVE SortById(_)
\* The rows of a select, in id order.
SortById(S) ==
    IF S = {} THEN <<>>
    ELSE LET r == CHOOSE x \in S : \A y \in S : x.id <= y.id
         IN  <<r>> \o SortById(S \ {r})

\* The table without its UNIQUE(post_id, user_name) constraint.
NoUniqueConstraint(u) == FALSE

\* UNIQUE(post_id, user_name): a row for this voter already exists.
UniqueViolation(u) == \E r \in serverVotes : r.user_name = u

\* REFERENCES posts(id): the post row is gone.
ForeignKeyViolation == ~postExists

\* INSERT INTO votes that checks the foreign key only.
InsertOutcomeNoUnique(u) == IF ForeignKeyViolation THEN "23503" ELSE "ok"

\* The outcome of INSERT INTO votes for voter u: an error code or "ok".
InsertOutcome(u) ==
    IF ForeignKeyViolation THEN "23503"
    ELSE IF UniqueViolation(u) THEN "23505"
    ELSE "ok"

\* Realtime fan-out: only a joined channel receives the change events.
Emit(evs) == IF subscribed THEN events \o evs ELSE events

InsertEvent(r) == [eventType |-> "INSERT", row |-> r]
DeleteEvent(r) == [eventType |-> "DELETE", row |-> r]

RECURSIVE MapDelete(_)
MapDelete(s) == IF s = <<>> THEN <<>> ELSE <<DeleteEvent(Head(s))>> \o MapDelete(Tail(s))

\* Calls of handleVote this instance may have awaiting at once (the guard of
\* handleVote keeps it at one; the cap only bounds the model).
MaxInFlight == 2

\* History of the insert of this instance that succeeded: the row it created,
\* whether the call has returned, whether the row's INSERT and DELETE events
\* have been delivered.
NoHist == [row |-> 0, vote_type |-> NULL, returned |-> FALSE, ins |-> FALSE, del |-> FALSE]

(***************************************************************************)
(* Post component: tally (Post.tsx 165-174, 505-514)                       *)
(***************************************************************************)

\* const currentUserVote = optimisticVote || userVote
currentUserVote == IF optimisticVote # NULL THEN optimisticVote ELSE userVote

IsOthers(v) == v.user_name # currentUserName

\* The tally without the filter on the current user's own row.
baseVotesUnfiltered == votes

\* const baseVotes = votes.filter(vote => vote.user_name !== currentUserName)
baseVotes == SelectSeq(votes, IsOthers)

IsTrue(v) == v.vote_type = "true"
IsFake(v) == v.vote_type = "fake"

trueVotes ==
    Len(SelectSeq(baseVotes, IsTrue)) + (IF currentUserVote = "true" THEN 1 ELSE 0)

fakeVotes ==
    Len(SelectSeq(baseVotes, IsFake)) + (IF currentUserVote = "fake" THEN 1 ELSE 0)

(***************************************************************************)
(* Post component: fetchVotes (Post.tsx 34-59, 323-356)                    *)
(***************************************************************************)

\* fetchVotes is called by the mount effect, so the optimisticVote it reads after
\* its await is the one of the mount render: useState(null).
closureOptimisticVote == NULL

\* data.find(vote => vote.user_name === currentUserName)?.vote_type || null
ActualVote(data) ==
    LET mine == SelectSeq(data, LAMBDA v : v.user_name = currentUserName)
    IN  IF mine = <<>> THEN NULL ELSE Head(mine).vote_type

\* The storage service answers the select with the rows it holds now.
FetchVotesAnswer ==
    /\ fetchReq.state = "sent"
    /\ fetchReq' = [state |-> "data", data |-> SortById(serverVotes)]
    /\ UNCHANGED <<postExists, serverVotes, nextId, subscribed, events, votes, userVote,
                   optimisticVote, isVoting, voteReqs, alertShown, hist>>
    /\ UNCHANGED notVoteVars

\* The select fails: { error } or a rejected promise.
FetchVotesFail ==
    /\ fetchReq.state = "sent"
    /\ \E how \in {"error", "throw"} : fetchReq' = [state |-> how]
    /\ UNCHANGED <<postExists, serverVotes, nextId, subscribed, events, votes, userVote,
                   optimisticVote, isVoting, voteReqs, alertShown, hist>>
    /\ UNCHANGED notVoteVars

\* The continuation of fetchVotes after its await.
FetchVotesReturn ==
    /\ fetchReq.state \in {"data", "error", "throw"}
    /\ IF fetchReq.state = "data"
       THEN LET data == fetchReq.data
                actualVote == ActualVote(data)
            IN  /\ votes' = data
                /\ userVote' = actualVote
                /\ optimisticVote' = IF closureOptimisticVote = actualVote
                                     THEN NULL ELSE optimisticVote
                /\ fetchReq' = [state |-> "done"]
       ELSE /\ UNCHANGED <<votes, userVote, optimisticVote>>
            /\ fetchReq' = [state |-> "failed"]
    /\ UNCHANGED <<postExists, serverVotes, nextId, subscribed, events, isVoting,
                   voteReqs, alertShown, hist>>
    /\ UNCHANGED notVoteVars

(***************************************************************************)
(* Post component: subscribeToVotes (Post.tsx 61-99, 358-396)              *)
(***************************************************************************)

\* .subscribe() is acknowledged by the realtime service.
ChannelJoined ==
    /\ ~subscribed
    /\ subscribed' = TRUE
    /\ UNCHANGED <<postExists, serverVotes, nextId, events, votes, userVote,
                   optimisticVote, isVoting, fetchReq, voteReqs, alertShown, hist>>
    /\ UNCHANGED notVoteVars

\* payload.eventType === 'INSERT'
OnInsert(newVote) ==
    /\ votes' = Append(votes, newVote)
    /\ IF newVote.user_name = currentUserName
       THEN userVote' = newVote.vote_type /\ optimisticVote' = NULL
       ELSE UNCHANGED <<userVote, optimisticVote>>
    /\ hist' = IF newVote.id = hist.row THEN [hist EXCEPT !.ins = TRUE] ELSE hist

\* payload.eventType === 'DELETE'
OnDelete(deletedVote) ==
    /\ votes' = SelectSeq(votes, LAMBDA v : v.id # deletedVote.id)
    /\ IF deletedVote.user_name = currentUserName
       THEN userVote' = NULL /\ optimisticVote' = NULL
       ELSE UNCHANGED <<userVote, optimisticVote>>
    /\ hist' = IF deletedVote.id = hist.row THEN [hist EXCEPT !.del = TRUE] ELSE hist

\* The channel callback runs for the oldest undelivered event.
DeliverEvent ==
    /\ events # <<>>
    /\ LET payload == Head(events)
       IN  IF payload.eventType = "INSERT" THEN OnInsert(payload.row)
           ELSE OnDelete(payload.row)
    /\ events' = Tail(events)
    /\ UNCHANGED <<postExists, serverVotes, nextId, subscribed, isVoting, fetchReq,
                   voteReqs, alertShown>>
    /\ UNCHANGED notVoteVars

(***************************************************************************)
(* Post component: handleVote (Post.tsx 101-133, 398-430)                  *)
(***************************************************************************)

\* The guard without its isVoting test.
HandleVoteBlockedNoVoting == userVote # NULL \/ optimisticVote # NULL

\* if (isVoting || userVote || optimisticVote) return;
HandleVoteBlocked == isVoting \/ userVote # NULL \/ optimisticVote # NULL

\* handleVote up to its await: the optimistic update and the insert request.
HandleVote(voteType) ==
    /\ ~HandleVoteBlocked
    /\ Len(voteReqs) < MaxInFlight
    /\ optimisticVote' = voteType
    /\ isVoting' = TRUE
    /\ voteReqs' = Append(voteReqs, [state |-> "sent", vote_type |-> voteType])
    /\ UNCHANGED <<postExists, serverVotes, nextId, subscribed, events, votes, userVote,
                   fetchReq, alertShown, hist>>
    /\ UNCHANGED notVoteVars

\* The storage service runs the insert of this instance's request i.
ServerInsert(i) ==
    /\ voteReqs[i].state = "sent"
    /\ LET outcome == InsertOutcome(currentUserName)
           r == Row(nextId, currentUserName, voteReqs[i].vote_type)
       IN  /\ outcome = "ok" => nextId <= MaxId
           /\ voteReqs' = [voteReqs EXCEPT ![i].state = outcome]
           /\ IF outcome = "ok"
              THEN /\ serverVotes' = serverVotes \cup {r}
                   /\ nextId' = nextId + 1
                   /\ events' = Emit(<<InsertEvent(r)>>)
                   /\ hist' = [hist EXCEPT !.row = r.id, !.vote_type = r.vote_type]
              ELSE UNCHANGED <<serverVotes, nextId, events, hist>>
    /\ UNCHANGED <<postExists, subscribed, votes, userVote, optimisticVote, isVoting,
                   fetchReq, alertShown>>
    /\ UNCHANGED notVoteVars

\* The request or its response is lost: the awaited call rejects.
NetworkError(i) ==
    /\ voteReqs[i].state # "throw"
    /\ voteReqs' = [voteReqs EXCEPT ![i].state = "throw"]
    /\ UNCHANGED <<postExists, serverVotes, nextId, subscribed, events, votes, userVote,
                   optimisticVote, isVoting, fetchReq, alertShown, hist>>
    /\ UNCHANGED notVoteVars

RemoveAt(s, i) == SubSeq(s, 1, i - 1) \o SubSeq(s, i + 1, Len(s))

\* handleVote alerting on every error, 23505 included.
VoteAlertAnyError(outcome) ==
    CASE outcome = "ok" -> "none"
      [] outcome = "throw" -> "unexpected"
      [] OTHER -> "vote_failed"

\* alert() of handleVote for the outcome of its insert.
VoteAlert(outcome) ==
    CASE outcome = "ok" -> "none"
      [] outcome = "throw" -> "unexpected"
      [] outcome = "23505" -> "none"
      [] OTHER -> "vote_failed"

\* The continuation of handleVote after its await: error branch, catch, finally.
HandleVoteReturn(i) ==
    /\ voteReqs[i].state # "sent"
    /\ LET outcome == voteReqs[i].state
       IN  /\ optimisticVote' = IF outcome = "ok" THEN optimisticVote ELSE NULL
           /\ alertShown' = VoteAlert(outcome)
           /\ hist' = IF outcome = "ok" THEN [hist EXCEPT !.returned = TRUE] ELSE hist
    /\ isVoting' = FALSE
    /\ voteReqs' = RemoveAt(voteReqs, i)
    /\ UNCHANGED <<postExists, serverVotes, nextId, subscribed, events, votes, userVote,
                   fetchReq>>
    /\ UNCHANGED notVoteVars

(***************************************************************************)
(* Other clients of the storage service                                    *)
(***************************************************************************)

\* Another client (another user, or the current user in another tab) inserts a vote.
OtherVote(u, t) ==
    /\ InsertOutcome(u) = "ok"
    /\ nextId <= MaxId
    /\ LET r == Row(nextId, u, t)
       IN  /\ serverVotes' = serverVotes \cup {r}
           /\ events' = Emit(<<InsertEvent(r)>>)
    /\ nextId' = nextId + 1
    /\ UNCHANGED <<postExists, subscribed, votes, userVote, optimisticVote, isVoting,
                   fetchReq, voteReqs, alertShown, hist>>
    /\ UNCHANGED notVoteVars

\* A foreign key without ON DELETE CASCADE that lets the referencing rows stay.
OnDeleteNoAction(rows) == rows

\* REFERENCES posts(id) ON DELETE CASCADE: the vote rows of a deleted post that
\* remain.
OnDeleteCascade(rows) == {}

\* The post is deleted: ON DELETE CASCADE removes its votes.
DeletePost ==
    /\ postExists
    /\ postExists' = FALSE
    /\ serverVotes' = OnDeleteCascade(serverVotes)
    /\ events' = Emit(MapDelete(SortById(serverVotes \ OnDeleteCascade(serverVotes))))
    /\ UNCHANGED <<nextId, subscribed, votes, userVote, optimisticVote, isVoting,
                   fetchReq, voteReqs, alertShown, hist>>
    /\ UNCHANGED notVoteVars

(***************************************************************************)
(* Specification of one mounted Post instance                              *)
(***************************************************************************)

\* The votes the table may hold when the instance mounts: at most one per user.
InitialVotes ==
    { {Row(u + 1, u, f[u]) : u \in {x \in Users : f[x] # NULL}} :
        f \in [Users -> VoteTypes \cup {NULL}] }

\* After the mount effect: fetchVotes has sent its select, subscribeToVotes has
\* asked for the channel.
VoteInit ==
    /\ postExists = TRUE
    /\ serverVotes \in InitialVotes
    /\ nextId = NumOthers + 2
    /\ subscribed = FALSE
    /\ events = <<>>
    /\ votes = <<>>
    /\ userVote = NULL
    /\ optimisticVote = NULL
    /\ isVoting = FALSE
    /\ fetchReq = [state |-> "sent"]
    /\ voteReqs = <<>>
    /\ alertShown = "none"
    /\ hist = NoHist

VoteNext ==
    \/ FetchVotesAnswer
    \/ FetchVotesFail
    \/ FetchVotesReturn
    \/ ChannelJoined
    \/ DeliverEvent
    \/ \E t \in VoteTypes : HandleVote(t)
    \/ \E i \in DOMAIN voteReqs : ServerInsert(i)
    \/ \E i \in DOMAIN voteReqs : NetworkError(i)
    \/ \E i \in DOMAIN voteReqs : HandleVoteReturn(i)
    \/ \E u \in Users, t \in VoteTypes : OtherVote(u, t)
    \/ DeletePost

(***************************************************************************)
(* lib/analyzer.ts: JavaScript values                                      *)
(***************************************************************************)

\* A JSON value of a provider response, tagged with its JavaScript type.
Undef  == [t |-> "undef", n |-> 0, s |-> "", a |-> <<>>]
NaN    == [t |-> "nan", n |-> 0, s |-> "", a |-> <<>>]
Num(x) == [t |-> "num", n |-> x, s |-> "", a |-> <<>>]
Str(x) == [t |-> "str", n |-> 0, s |-> x, a |-> <<>>]
Arr(x) == [t |-> "arr", n |-> 0, s |-> "", a |-> x]

\* ToBoolean: undefined, NaN, 0 and '' are falsy; every array is truthy.
Truthy(x) ==
    CASE x.t = "undef" -> FALSE
      [] x.t = "nan" -> FALSE
      [] x.t = "num" -> x.n # 0
      [] x.t = "str" -> x.s # ""
      [] OTHER -> TRUE

\* x || d
Or(x, d) == IF Truthy(x) THEN x ELSE d

\* A settled or pending promise.
NoValue == [none |-> TRUE]
Pending == [kind |-> "pending", value |-> NoValue]
Thrown  == [kind |-> "throw", value |-> NoValue]
Ret(v)  == [kind |-> "return", value |-> v]

(***************************************************************************)
(* lib/analyzer.ts: getWebContext (38-48)                                  *)
(***************************************************************************)

WebOutcomes == {"network_failure", "unparseable", "abstract", "topics", "empty"}

WebFallback == "Web search unavailable; using model knowledge."

\* data.Abstract || data.RelatedTopics?.map(t => t.Text).join(' ') || 'No recent data found.'
WebContextOf(in) ==
    CASE in = "abstract" -> "an abstract"
      [] in = "topics" -> "topic one topic two"
      [] OTHER -> "No recent data found."

GetWebContext(in) ==
    LET body == IF in \in {"network_failure", "unparseable"} THEN Thrown
                ELSE Ret("Recent web context: " \o WebContextOf(in))
    IN  IF body.kind = "throw" THEN Ret(WebFallback) ELSE body

(***************************************************************************)
(* lib/analyzer.ts: analyzeWithOpenAI (50-99), analyzeWithGemini (101-156) *)
(***************************************************************************)

\* true_rate of the prompt: "Percentage (0-100)".
MaxRate == 100

JsonObject(v, r, re, so) == [verdict |-> v, true_rate |-> r, reasoning |-> re, sources |-> so]

EmptyObject == JsonObject(Undef, Undef, Undef, Undef)

\* Responses that follow the prompt: every rate, every verdict.
WellFormedObjects ==
    { JsonObject(Str(v), Num(r), Arr(<<"fact one">>), Arr(<<"https://a.example">>)) :
        v \in {"True", "False", "Mixed"}, r \in 0..MaxRate }

\* Responses that vary the lists.
ListObjects ==
    { JsonObject(Str("Mixed"), Num(r), Arr(re), Arr(so)) :
        r \in {40, 90},
        re \in {<<>>, <<"fact one">>, <<"fact one", "fact two">>},
        so \in {<<>>, <<"https://a.example", "https://b.example", "https://a.example">>,
                <<"https://b.example">>} }

\* Responses with fields missing or of another type.
MalformedObjects ==
    { JsonObject(v, r, re, so) :
        v \in {Undef, Num(1), Str("True")},
        r \in {Undef, Str("high"), Num(90)},
        re \in {Undef, Str("some text"), Arr(<<"fact one">>)},
        so \in {Undef, Num(5), Arr(<<"https://a.example">>)} }

JsonObjects == WellFormedObjects \cup ListObjects \cup MalformedObjects

Outcome(k, o) == [kind |-> k, obj |-> o]

NotCalled == Outcome("not_called", EmptyObject)

\* What openai.chat.completions.create and the message content can be.
OpenAIOutcomes ==
    { Outcome(k, EmptyObject) : k \in {"throws", "empty", "unparseable", "json_null"} }
    \cup { Outcome("json", o) : o \in JsonObjects }

\* What generateContent and response.text() can be.
GeminiOutcomes ==
    { Outcome(k, EmptyObject) : k \in {"throws", "no_json", "unparseable"} }
    \cup { Outcome("json", o) : o \in JsonObjects }

Placeholder(line) ==
    [verdict |-> Str("Mixed"), true_rate |-> Num(50), reasoning |-> Arr(<<line>>),
     sources |-> Arr(<<>>)]

\* The object literal built from the parsed response (83-89, 140-146).
Normalize(result) ==
    [verdict |-> Or(result.verdict, Str("Mixed")),
     true_rate |-> Or(result.true_rate, Num(50)),
     reasoning |-> Or(result.reasoning, Arr(<<"Analysis unavailable">>)),
     sources |-> Or(result.sources, Arr(<<>>))]

\* The try block of analyzeWithOpenAI: JSON.parse(content || '{}') and the literal.
OpenAITry(in) ==
    CASE in.kind = "throws" -> Thrown
      [] in.kind = "unparseable" -> Thrown
      [] in.kind = "json_null" -> Thrown
      [] in.kind = "empty" -> Ret(Normalize(EmptyObject))
      [] OTHER -> Ret(Normalize(in.obj))

\* analyzeWithOpenAI without its catch block.
AnalyzeWithOpenAINoCatch(configured, in) ==
    IF ~configured THEN Ret(Placeholder("OpenAI API key not configured"))
    ELSE OpenAITry(in)

AnalyzeWithOpenAI(configured, in) ==
    IF ~configured THEN Ret(Placeholder("OpenAI API key not configured"))
    ELSE LET body == OpenAITry(in)
         IN  IF body.kind = "throw"
             THEN Ret(Placeholder("OpenAI analysis temporarily unavailable"))
             ELSE body

\* The try block of analyzeWithGemini: the regex match, JSON.parse and the literal.
GeminiTry(in) ==
    CASE in.kind = "throws" -> Thrown
      [] in.kind = "no_json" -> Thrown
      [] in.kind = "unparseable" -> Thrown
      [] OTHER -> Ret(Normalize(in.obj))

AnalyzeWithGemini(configured, in) ==
    IF ~configured THEN Ret(Placeholder("Gemini API key not configured"))
    ELSE LET body == GeminiTry(in)
         IN  IF body.kind = "throw"
             THEN Ret(Placeholder("Gemini analysis temporarily unavailable"))
             ELSE body

(***************************************************************************)
(* lib/analyzer.ts: getAnalysis (158-189)                                  *)
(***************************************************************************)

\* A reasoning list passed on without its provider label.
PrefixNone(label, lines) == lines

\* A source list passed on as it is.
NoDedup(list, seen) == list

\* Math.floor in place of Math.round.
MathFloorHalf(s) == s \div 2

\* Math.round(s / 2) for an integer s >= 0: floor(s / 2 + 0.5).
MathRoundHalf(s) == (s + 1) \div 2

\* The sum of the two rates, not divided by 2.
SumTrueRate(a, b) ==
    IF a.t = "num" /\ b.t = "num" THEN Num(a.n + b.n) ELSE NaN

\* Math.round((a + b) / 2): with a string operand + concatenates and the quotient
\* of a non-numeric string is NaN.
AvgTrueRate(a, b) ==
    IF a.t = "num" /\ b.t = "num" THEN Num(MathRoundHalf(a.n + b.n)) ELSE NaN

\* avgTrueRate > 70 ? 'True' : avgTrueRate < 30 ? 'False' : 'Mixed'
Verdict(avg) ==
    IF avg.t = "num" /\ avg.n > 70 THEN "True"
    ELSE IF avg.t = "num" /\ avg.n < 30 THEN "False"
    ELSE "Mixed"

RECURSIVE Prefix(_, _)
Prefix(label, lines) ==
    IF lines = <<>> THEN <<>>
    ELSE <<label \o ": " \o Head(lines)>> \o Prefix(label, Tail(lines))

\* res.reasoning.map(r => `<label>: ${r}`): only an array has map.
MapReasoning(label, reasoning) ==
    IF reasoning.t = "arr" THEN Ret(Prefix(label, reasoning.a)) ELSE Thrown

\* ...res.sources: a number is not iterable.
Spread(sources) == IF sources.t = "arr" THEN Ret(sources.a) ELSE Thrown

RECURSIVE Dedup(_, _)
\* [...new Set(list)]: first occurrences, in order.
Dedup(list, seen) ==
    IF list = <<>> THEN <<>>
    ELSE IF Head(list) \in seen THEN Dedup(Tail(list), seen)
    ELSE <<Head(list)>> \o Dedup(Tail(list), seen \cup {Head(list)})

\* The body of getAnalysis after Promise.all has settled.
Combine(o, g) ==
    IF o.kind = "throw" \/ g.kind = "throw" THEN Thrown
    ELSE LET openaiResult == o.value
             geminiResult == g.value
             avgTrueRate == AvgTrueRate(openaiResult.true_rate, geminiResult.true_rate)
             r1 == MapReasoning("OpenAI", openaiResult.reasoning)
             r2 == MapReasoning("Gemini", geminiResult.reasoning)
             s1 == Spread(openaiResult.sources)
             s2 == Spread(geminiResult.sources)
         IN  IF \E x \in {r1, r2, s1, s2} : x.kind = "throw" THEN Thrown
             ELSE Ret([true_rate |-> avgTrueRate,
                       verdict |-> Verdict(avgTrueRate),
                       reasoning |-> r1.value \o r2.value,
                       sources |-> Dedup(s1.value \o s2.value, {}),
                       models |-> [openai |-> openaiResult, gemini |-> geminiResult]])

\* The postText argument of getAnalysis.
PostText == "claim text"

\* The imageUrl argument of getAnalysis: absent, or a URL.
ImageUrls == {"", "https://img.example/a.png"}

\* const fullText = postText + (imageUrl ? ` Image: ${imageUrl}` : '')
FullText(postText, imageUrl) ==
    IF imageUrl # "" THEN postText \o " Image: " \o imageUrl ELSE postText

\* The arguments (claim, webContext) of a provider call; none before the call.
Args(claim, context) == [claim |-> claim, webContext |-> context]

NoArgs == Args("", "")

\* analyzeWithOpenAI(fullText, webContext)
OpenAIArgs(fullText, context) == Args(fullText, context)

\* A call of analyzeWithGemini that leaves webContext to its default ''.
GeminiArgsNoContext(fullText, context) == Args(fullText, "")

\* analyzeWithGemini(fullText, webContext)
GeminiArgs(fullText, context) == Args(fullText, context)

\* getAnalysis is called: the web lookup is awaited.
GetAnalysisCall ==
    /\ apc = "idle"
    /\ apc' = "web"
    /\ \E imageUrl \in ImageUrls :
          provCalls' = [imageUrl |-> imageUrl, openai |-> NoArgs, gemini |-> NoArgs]
    /\ UNCHANGED <<openai, genAI, webIn, webContext, openaiIn, geminiIn, openaiRes,
                   geminiRes, combined>>
    /\ UNCHANGED notAnalysisVars

\* getWebContext settles; Promise.all starts the two provider calls.
WebContextSettles ==
    /\ apc = "web"
    /\ \E in \in WebOutcomes :
          /\ webIn' = in
          /\ webContext' = GetWebContext(in)
          /\ provCalls' = [provCalls EXCEPT
                          !.openai = OpenAIArgs(FullText(PostText, provCalls.imageUrl),
                                                GetWebContext(in).value),
                          !.gemini = GeminiArgs(FullText(PostText, provCalls.imageUrl),
                                                GetWebContext(in).value)]
    /\ apc' = "calling"
    /\ UNCHANGED <<openai, genAI, openaiIn, geminiIn, openaiRes, geminiRes, combined>>
    /\ UNCHANGED notAnalysisVars

OpenAISettles ==
    /\ apc = "calling"
    /\ openaiRes = Pending
    /\ \E in \in (IF openai THEN OpenAIOutcomes ELSE {NotCalled}) :
          /\ openaiIn' = in
          /\ openaiRes' = AnalyzeWithOpenAI(openai, in)
    /\ UNCHANGED <<openai, genAI, apc, webIn, webContext, geminiIn, geminiRes, combined,
                   provCalls>>
    /\ UNCHANGED notAnalysisVars

GeminiSettles ==
    /\ apc = "calling"
    /\ geminiRes = Pending
    /\ \E in \in (IF genAI THEN GeminiOutcomes ELSE {NotCalled}) :
          /\ geminiIn' = in
          /\ geminiRes' = AnalyzeWithGemini(genAI, in)
    /\ UNCHANGED <<openai, genAI, apc, webIn, webContext, openaiIn, openaiRes, combined,
                   provCalls>>
    /\ UNCHANGED notAnalysisVars

\* Promise.all resolves and the rest of getAnalysis runs.
Aggregate ==
    /\ apc = "calling"
    /\ openaiRes # Pending
    /\ geminiRes # Pending
    /\ combined' = Combine(openaiRes, geminiRes)
    /\ apc' = "done"
    /\ UNCHANGED <<openai, genAI, webIn, webContext, openaiIn, geminiIn, openaiRes,
                   geminiRes, provCalls>>
    /\ UNCHANGED notAnalysisVars

\* The module has been loaded: each client is configured or null.
AnalysisInit ==
    /\ openai \in BOOLEAN
    /\ genAI \in BOOLEAN
    /\ apc = "idle"
    /\ webIn = "none"
    /\ webContext = Pending
    /\ openaiIn = NotCalled
    /\ geminiIn = NotCalled
    /\ openaiRes = Pending
    /\ geminiRes = Pending
    /\ combined = Pending
    /\ provCalls = [imageUrl |-> "", openai |-> NoArgs, gemini |-> NoArgs]

AnalysisNext ==
    \/ GetAnalysisCall
    \/ WebContextSettles
    \/ OpenAISettles
    \/ GeminiSettles
    \/ Aggregate

(***************************************************************************)
(* Storage: table posts                                                    *)
(***************************************************************************)

\* CHECK (length(content) <= 500)
ContentLimit == 500

\* Post ids (and creation times) the storage service hands out.
MaxPosts == 2

\* Realtime events of table posts a Feed may have waiting for delivery.
MaxFeedEvents == 2

\* Requests on table posts this client may have awaiting at once.
MaxPostReqs == 1

\* A row of table posts.  A content is represented by its length after trim();
\* created_at is the time of the insert, which grows with the id.
PostRow(i, a, c, img) ==
    [id |-> i, author_name |-> a, content |-> c, image_url |-> img, created_at |-> i]

\* What a user may have typed into the fields of CreatePost: a short text, or one
\* beyond the limit.
CreateDrafts ==
    { [content |-> 1, image_url |-> NULL],
      [content |-> ContentLimit + 1, image_url |-> NULL] }

\* What a user may have typed into the edit fields of a Post: nothing but blanks,
\* a text of the full length with an image, or one beyond the limit.
EditDrafts ==
    { [content |-> 0, image_url |-> NULL],
      [content |-> ContentLimit, image_url |-> "img"],
      [content |-> ContentLimit + 1, image_url |-> NULL] }

\* A posts table that accepts content of any length.
NoCheckViolation(c) == FALSE

\* CHECK (length(content) <= 500) is violated.
CheckViolation(c) == c > ContentLimit

RECURSIVE SortByCreatedDesc(_)
\* .order('created_at', { ascending: false })
SortByCreatedDesc(S) ==
    IF S = {} THEN <<>>
    ELSE LET r == CHOOSE x \in S : \A y \in S : x.created_at >= y.created_at
         IN  <<r>> \o SortByCreatedDesc(S \ {r})

\* Realtime fan-out of table posts: only a joined channel receives the events;
\* the channel stays joined until it is removed.
FeedEmit(evs) == IF feedChannel = "joined" THEN feedEvents \o evs ELSE feedEvents

\* There is room for one more event.
FeedRoom == feedChannel = "joined" => Len(feedEvents) < MaxFeedEvents

PostEvent(type, r) == [eventType |-> type, row |-> r]

\* INSERT INTO posts by author a.
InsertPost(a, c, img) ==
    LET r == PostRow(nextPostId, a, c, img)
    IN  /\ postsTable' = postsTable \cup {r}
        /\ nextPostId' = nextPostId + 1
        /\ feedEvents' = FeedEmit(<<PostEvent("INSERT", r)>>)

\* UPDATE posts SET content, image_url of row old.
UpdatePost(old, c, img) ==
    LET r == [old EXCEPT !.content = c, !.image_url = img]
    IN  /\ postsTable' = (postsTable \ {old}) \cup {r}
        /\ feedEvents' = FeedEmit(<<PostEvent("UPDATE", r)>>)
        /\ UNCHANGED nextPostId

\* DELETE FROM posts of row old.
DeletePostRow(old) ==
    /\ postsTable' = postsTable \ {old}
    /\ feedEvents' = FeedEmit(<<PostEvent("DELETE", old)>>)
    /\ UNCHANGED nextPostId

(***************************************************************************)
(* Feed component, incremental variant: fetchPosts                         *)
(***************************************************************************)

\* The storage service answers the select with the rows it holds now.
FetchPostsAnswer ==
    /\ feedFetch.state = "sent"
    /\ feedFetch' = [state |-> "data", data |-> SortByCreatedDesc(postsTable)]
    /\ UNCHANGED <<postsTable, nextPostId, feedMounted, feedChannel, feedEvents, posts,
                   loading, postReqs, feedAlert>>
    /\ UNCHANGED notFeedVars

\* The select fails: { error } or a rejected promise.
FetchPostsFail ==
    /\ feedFetch.state = "sent"
    /\ \E how \in {"error", "throw"} : feedFetch' = [state |-> how, data |-> <<>>]
    /\ UNCHANGED <<postsTable, nextPostId, feedMounted, feedChannel, feedEvents, posts,
                   loading, postReqs, feedAlert>>
    /\ UNCHANGED notFeedVars

\* The continuation of fetchPosts after its await.  State updates of a component
\* that has unmounted are dropped.
FetchPostsReturn ==
    /\ feedFetch.state \in {"data", "error", "throw"}
    /\ feedFetch' = [state |-> IF feedFetch.state = "data" THEN "done" ELSE "failed",
                     data |-> <<>>]
    /\ posts' = IF feedMounted /\ feedFetch.state = "data" THEN feedFetch.data ELSE posts
    /\ loading' = IF feedMounted THEN FALSE ELSE loading
    /\ UNCHANGED <<postsTable, nextPostId, feedMounted, feedChannel, feedEvents,
                   postReqs, feedAlert>>
    /\ UNCHANGED notFeedVars

(***************************************************************************)
(* Feed component, incremental variant: subscribeToFeed                    *)
(***************************************************************************)

\* .subscribe() is acknowledged by the realtime service.
FeedChannelJoined ==
    /\ feedChannel = "joining"
    /\ feedChannel' = "joined"
    /\ UNCHANGED <<postsTable, nextPostId, feedMounted, feedEvents, posts, loading,
                   feedFetch, postReqs, feedAlert>>
    /\ UNCHANGED notFeedVars

\* prevPosts.filter(post => post.id !== payload.old.id)
OnPostDelete(prevPosts, old) == SelectSeq(prevPosts, LAMBDA post : post.id # old.id)

\* An insert handler that adds the new post at the end of the list.
OnPostInsertAtEnd(prevPosts, new) == prevPosts \o <<new>>

\* [payload.new as PostData, ...prevPosts]
OnPostInsert(prevPosts, new) == <<new>> \o prevPosts

\* prevPosts.map(post => post.id === payload.new.id ? payload.new : post)
OnPostUpdate(prevPosts, new) ==
    [i \in DOMAIN prevPosts |-> IF prevPosts[i].id = new.id THEN new ELSE prevPosts[i]]

\* The list after the channel callback has run for payload.
ApplyPostEvent(prevPosts, payload) ==
    CASE payload.eventType = "DELETE" -> OnPostDelete(prevPosts, payload.row)
      [] payload.eventType = "INSERT" -> OnPostInsert(prevPosts, payload.row)
      [] payload.eventType = "UPDATE" -> OnPostUpdate(prevPosts, payload.row)

\* The channel callback runs for the oldest undelivered event.
FeedDeliverEvent ==
    /\ feedEvents # <<>>
    /\ posts' = IF feedMounted THEN ApplyPostEvent(posts, Head(feedEvents)) ELSE posts
    /\ feedEvents' = Tail(feedEvents)
    /\ UNCHANGED <<postsTable, nextPostId, feedMounted, feedChannel, loading, feedFetch,
                   postReqs, feedAlert>>
    /\ UNCHANGED notFeedVars

\* The Feed unmounts and its state is discarded.  The mount effect calls
\* subscribeToFeed() and drops the cleanup it returns, so nothing removes the
\* channel.
FeedUnmount ==
    /\ feedMounted
    /\ feedMounted' = FALSE
    /\ posts' = <<>>
    /\ loading' = TRUE
    /\ UNCHANGED <<postsTable, nextPostId, feedChannel, feedEvents, feedFetch,
                   postReqs, feedAlert>>
    /\ UNCHANGED notFeedVars

(***************************************************************************)
(* Requests on table posts: handleCreatePost, handleDelete, handleSaveEdit *)
(***************************************************************************)

PostReq(kind, i, a, c, img) ==
    [kind |-> kind, id |-> i, author |-> a, content |-> c, image_url |-> img,
     state |-> "sent"]

\* A Post instance is rendered for entry i of the list.
Rendered(i) == feedMounted /\ ~loading /\ i \in DOMAIN posts

\* The button of the Post instance is disabled while its request is awaited
\* (disabled={isDeleting}, disabled={isSaving}).
Awaiting(kind, i) == \E k \in DOMAIN postReqs : postReqs[k].kind = kind /\ postReqs[k].id = i

\* A Post whose edit and delete controls are open to every user.
IsAuthorAnyone(authorName) == TRUE

\* authorName === currentUserName: the controls are rendered, and handleDelete and
\* handleSaveEdit go on, only for the author.
IsAuthor(authorName) == authorName = currentUserName

\* CreatePost.handleSubmit -> App.handleCreatePost up to its await.
HandleCreatePost(d) ==
    /\ feedMounted
    /\ d.content # 0
    /\ Len(postReqs) < MaxPostReqs
    /\ postReqs' = Append(postReqs,
                          PostReq("insert", 0, currentUserName, d.content, d.image_url))
    /\ UNCHANGED <<postsTable, nextPostId, feedMounted, feedChannel, feedEvents, posts,
                   loading, feedFetch, feedAlert>>
    /\ UNCHANGED notFeedVars

\* handleDelete of the Post instance of entry i, up to its await.
HandleDelete(i) ==
    /\ Rendered(i)
    /\ IsAuthor(posts[i].author_name)
    /\ ~Awaiting("delete", posts[i].id)
    /\ Len(postReqs) < MaxPostReqs
    /\ postReqs' = Append(postReqs,
                          PostReq("delete", posts[i].id, posts[i].author_name, 0, NULL))
    /\ UNCHANGED <<postsTable, nextPostId, feedMounted, feedChannel, feedEvents, posts,
                   loading, feedFetch, feedAlert>>
    /\ UNCHANGED notFeedVars

\* handleSaveEdit of the Post instance of entry i, up to its return or its await.
HandleSaveEdit(i, d) ==
    /\ Rendered(i)
    /\ IsAuthor(posts[i].author_name)
    /\ ~Awaiting("update", posts[i].id)
    /\ IF d.content = 0
       THEN /\ feedAlert' = "empty"
            /\ UNCHANGED postReqs
       ELSE /\ Len(postReqs) < MaxPostReqs
            /\ postReqs' = Append(postReqs,
                                  PostReq("update", posts[i].id, posts[i].author_name,
                                          d.content, d.image_url))
            /\ UNCHANGED feedAlert
    /\ UNCHANGED <<postsTable, nextPostId, feedMounted, feedChannel, feedEvents, posts,
                   loading, feedFetch>>
    /\ UNCHANGED notFeedVars

\* The storage service runs the insert of request k.
ServerInsertPost(k) ==
    /\ postReqs[k].kind = "insert"
    /\ postReqs[k].state = "sent"
    /\ IF CheckViolation(postReqs[k].content)
       THEN /\ postReqs' = [postReqs EXCEPT ![k].state = "23514"]
            /\ UNCHANGED <<postsTable, nextPostId, feedEvents>>
       ELSE /\ nextPostId <= MaxPosts
            /\ FeedRoom
            /\ InsertPost(postReqs[k].author, postReqs[k].content, postReqs[k].image_url)
            /\ postReqs' = [postReqs EXCEPT ![k].state = "ok"]
    /\ UNCHANGED <<feedMounted, feedChannel, posts, loading, feedFetch, feedAlert>>
    /\ UNCHANGED notFeedVars

\* The rows .delete().eq('id', id).eq('author_name', currentUserName) names.
DeleteTargets(req) ==
    {r \in postsTable : r.id = req.id /\ r.author_name = currentUserName}

\* The rows .update(...).eq('id', id) names.
UpdateTargets(req) == {r \in postsTable : r.id = req.id}

\* The storage service runs the delete of request k.  Row-level security is on and
\* the migration defines no DELETE policy, so the row is removed only when the
\* caller's role is not subject to it; the call reports no error either way.
ServerDeletePost(k) ==
    /\ postReqs[k].kind = "delete"
    /\ postReqs[k].state = "sent"
    /\ \E permitted \in BOOLEAN :
          IF permitted /\ DeleteTargets(postReqs[k]) # {}
          THEN /\ FeedRoom
               /\ DeletePostRow(CHOOSE r \in DeleteTargets(postReqs[k]) : TRUE)
          ELSE UNCHANGED <<postsTable, nextPostId, feedEvents>>
    /\ postReqs' = [postReqs EXCEPT ![k].state = "ok"]
    /\ UNCHANGED <<feedMounted, feedChannel, posts, loading, feedFetch, feedAlert>>
    /\ UNCHANGED notFeedVars

\* The storage service runs the update of request k: no row (the post is gone, or
\* no UPDATE policy lets the caller see it), a CHECK violation, or the new row.
ServerUpdatePost(k) ==
    /\ postReqs[k].kind = "update"
    /\ postReqs[k].state = "sent"
    /\ \E permitted \in BOOLEAN :
          IF ~permitted \/ UpdateTargets(postReqs[k]) = {}
          THEN /\ postReqs' = [postReqs EXCEPT ![k].state = "norow"]
               /\ UNCHANGED <<postsTable, nextPostId, feedEvents>>
          ELSE IF CheckViolation(postReqs[k].content)
          THEN /\ postReqs' = [postReqs EXCEPT ![k].state = "23514"]
               /\ UNCHANGED <<postsTable, nextPostId, feedEvents>>
          ELSE /\ FeedRoom
               /\ UpdatePost(CHOOSE r \in UpdateTargets(postReqs[k]) : TRUE,
                             postReqs[k].content, postReqs[k].image_url)
               /\ postReqs' = [postReqs EXCEPT ![k].state = "ok"]
    /\ UNCHANGED <<feedMounted, feedChannel, posts, loading, feedFetch, feedAlert>>
    /\ UNCHANGED notFeedVars

\* The request or its response is lost, or the service answers with an error.
PostReqFails(k) ==
    /\ postReqs[k].state = "sent"
    /\ \E how \in {"error", "throw"} : postReqs' = [postReqs EXCEPT ![k].state = how]
    /\ UNCHANGED <<postsTable, nextPostId, feedMounted, feedChannel, feedEvents, posts,
                   loading, feedFetch, feedAlert>>
    /\ UNCHANGED notFeedVars

\* alert() of handleCreatePost for the outcome of its insert.
CreateAlert(outcome) ==
    CASE outcome = "ok" -> "none"
      [] outcome = "throw" -> "unexpected"
      [] OTHER -> "create_failed"

\* alert() of handleDelete for the outcome of its delete.
DeleteAlert(outcome) ==
    CASE outcome = "ok" -> "none"
      [] outcome = "throw" -> "unexpected"
      [] OTHER -> "delete_failed"

\* handleSaveEdit without its alerts.
SaveEditAlertNone(outcome) == "none"

\* alert() of handleSaveEdit for the outcome of its update.
SaveEditAlert(outcome) ==
    CASE outcome = "ok" -> "none"
      [] outcome = "throw" -> "network"
      [] outcome = "norow" -> "not_available"
      [] OTHER -> "update_failed"

\* Feed.handlePostUpdate(postId, updatedContent, updatedImageUrl)
HandlePostUpdate(prevPosts, postId, updatedContent, updatedImageUrl) ==
    [i \in DOMAIN prevPosts |->
        IF prevPosts[i].id = postId
        THEN [prevPosts[i] EXCEPT !.content = updatedContent,
                                  !.image_url = updatedImageUrl]
        ELSE prevPosts[i]]

\* The continuation of handleCreatePost after its await.
HandleCreatePostReturn(k) ==
    /\ postReqs[k].kind = "insert"
    /\ postReqs[k].state # "sent"
    /\ feedAlert' = CreateAlert(postReqs[k].state)
    /\ postReqs' = RemoveAt(postReqs, k)
    /\ UNCHANGED <<postsTable, nextPostId, feedMounted, feedChannel, feedEvents, posts,
                   loading, feedFetch>>
    /\ UNCHANGED notFeedVars

\* The continuation of handleDelete after its await.
HandleDeleteReturn(k) ==
    /\ postReqs[k].kind = "delete"
    /\ postReqs[k].state # "sent"
    /\ feedAlert' = DeleteAlert(postReqs[k].state)
    /\ postReqs' = RemoveAt(postReqs, k)
    /\ UNCHANGED <<postsTable, nextPostId, feedMounted, feedChannel, feedEvents, posts,
                   loading, feedFetch>>
    /\ UNCHANGED notFeedVars

\* The continuation of handleSaveEdit after its await; on success it calls
\* onPostUpdate, the Feed's handlePostUpdate.
HandleSaveEditReturn(k) ==
    /\ postReqs[k].kind = "update"
    /\ postReqs[k].state # "sent"
    /\ feedAlert' = SaveEditAlert(postReqs[k].state)
    /\ posts' = IF postReqs[k].state = "ok" /\ feedMounted
                THEN HandlePostUpdate(posts, postReqs[k].id, postReqs[k].content,
                                      postReqs[k].image_url)
                ELSE posts
    /\ postReqs' = RemoveAt(postReqs, k)
    /\ UNCHANGED <<postsTable, nextPostId, feedMounted, feedChannel, feedEvents,
                   loading, feedFetch>>
    /\ UNCHANGED notFeedVars

(***************************************************************************)
(* Other clients of table posts                                            *)
(***************************************************************************)

\* Another client (another user, or the current user in another tab) creates a post.
OtherCreatePost(u, d) ==
    /\ d.content # 0
    /\ ~CheckViolation(d.content)
    /\ nextPostId <= MaxPosts
    /\ FeedRoom
    /\ InsertPost(u, d.content, d.image_url)
    /\ UNCHANGED <<feedMounted, feedChannel, posts, loading, feedFetch, postReqs,
                   feedAlert>>
    /\ UNCHANGED notFeedVars

\* The author of post r edits it from another client.
OtherUpdatePost(r, d) ==
    /\ r \in postsTable
    /\ d.content # 0
    /\ ~CheckViolation(d.content)
    /\ [r EXCEPT !.content = d.content, !.image_url = d.image_url] # r
    /\ FeedRoom
    /\ UpdatePost(r, d.content, d.image_url)
    /\ UNCHANGED <<feedMounted, feedChannel, posts, loading, feedFetch, postReqs,
                   feedAlert>>
    /\ UNCHANGED notFeedVars

\* The author of post r deletes it from another client.
OtherDeletePost(r) ==
    /\ r \in postsTable
    /\ FeedRoom
    /\ DeletePostRow(r)
    /\ UNCHANGED <<feedMounted, feedChannel, posts, loading, feedFetch, postReqs,
                   feedAlert>>
    /\ UNCHANGED notFeedVars

(***************************************************************************)
(* Specification of one Feed instance and the Post controls it renders     *)
(***************************************************************************)

\* After the mount effect: fetchPosts has sent its select, subscribeToFeed has
\* asked for the channel.
FeedInit ==
    /\ postsTable = {}
    /\ nextPostId = 1
    /\ feedMounted = TRUE
    /\ feedChannel = "joining"
    /\ feedEvents = <<>>
    /\ posts = <<>>
    /\ loading = TRUE
    /\ feedFetch = [state |-> "sent", data |-> <<>>]
    /\ postReqs = <<>>
    /\ feedAlert = "none"

FeedNext ==
    \/ FetchPostsAnswer
    \/ FetchPostsFail
    \/ FetchPostsReturn
    \/ FeedChannelJoined
    \/ FeedDeliverEvent
    \/ FeedUnmount
    \/ \E d \in CreateDrafts : HandleCreatePost(d)
    \/ \E i \in DOMAIN posts : HandleDelete(i)
    \/ \E i \in DOMAIN posts, d \in EditDrafts : HandleSaveEdit(i, d)
    \/ \E k \in DOMAIN postReqs : ServerInsertPost(k)
    \/ \E k \in DOMAIN postReqs : ServerDeletePost(k)
    \/ \E k \in DOMAIN postReqs : ServerUpdatePost(k)
    \/ \E k \in DOMAIN postReqs : PostReqFails(k)
    \/ \E k \in DOMAIN postReqs : HandleCreatePostReturn(k)
    \/ \E k \in DOMAIN postReqs : HandleDeleteReturn(k)
    \/ \E k \in DOMAIN postReqs : HandleSaveEditReturn(k)
    \/ \E u \in Users, d \in CreateDrafts : OtherCreatePost(u, d)
    \/ \E r \in postsTable, d \in EditDrafts : OtherUpdatePost(r, d)
    \/ \E r \in postsTable : OtherDeletePost(r)

\* No Feed is mounted.
FeedIdle ==
    /\ postsTable = {}
    /\ nextPostId = 1
    /\ feedMounted = FALSE
    /\ feedChannel = "closed"
    /\ feedEvents = <<>>
    /\ posts = <<>>
    /\ loading = TRUE
    /\ feedFetch = [state |-> "none", data |-> <<>>]
    /\ postReqs = <<>>
    /\ feedAlert = "none"

(***************************************************************************)
(* Feed component, refetch variant (Feed.tsx 18-66)                        *)
(***************************************************************************)

\* fetchPosts calls one Feed instance makes in the model.
MaxFetches == 3

NoSnapshot == [taken |-> FALSE, data |-> <<>>]

\* The storage service answers the select of call k with the rows it holds now.
RefetchAnswer(k) ==
    /\ refetches[k].state = "sent"
    /\ LET data == SortByCreatedDesc(postsTable)
       IN  /\ refetches' = [refetches EXCEPT ![k] = [state |-> "data", data |-> data]]
           /\ refetchHist' = [refetchHist EXCEPT !.newest = [taken |-> TRUE, data |-> data]]
    /\ UNCHANGED feedVars
    /\ UNCHANGED notRefetchVars

\* The select of call k fails: { error } or a rejected promise.
RefetchFail(k) ==
    /\ refetches[k].state = "sent"
    /\ \E how \in {"error", "throw"} :
          refetches' = [refetches EXCEPT ![k] = [state |-> how, data |-> <<>>]]
    /\ UNCHANGED refetchHist
    /\ UNCHANGED feedVars
    /\ UNCHANGED notRefetchVars

\* The continuation of call k of fetchPosts after its await; the responses of
\* overlapping calls arrive in any order.
RefetchReturn(k) ==
    /\ refetches[k].state # "sent"
    /\ posts' = IF refetches[k].state = "data" THEN refetches[k].data ELSE posts
    /\ loading' = FALSE
    /\ refetches' = RemoveAt(refetches, k)
    /\ UNCHANGED refetchHist
    /\ UNCHANGED <<postsTable, nextPostId, feedChannel, feedEvents, feedMounted,
                   feedFetch, postReqs, feedAlert>>
    /\ UNCHANGED notRefetchVars

\* The channel callback runs for the oldest undelivered event: fetchPosts().
RefetchOnEvent ==
    /\ feedEvents # <<>>
    /\ refetchHist.issued < MaxFetches
    /\ feedEvents' = Tail(feedEvents)
    /\ refetches' = Append(refetches, [state |-> "sent", data |-> <<>>])
    /\ refetchHist' = [refetchHist EXCEPT !.issued = @ + 1]
    /\ UNCHANGED <<postsTable, nextPostId, feedChannel, feedMounted, posts, loading,
                   feedFetch, postReqs, feedAlert>>
    /\ UNCHANGED notRefetchVars

\* After the mount effect: fetchPosts has sent its select, subscribeToFeed has
\* asked for the channel.
RefetchInit ==
    /\ postsTable = {}
    /\ nextPostId = 1
    /\ feedMounted = TRUE
    /\ feedChannel = "joining"
    /\ feedEvents = <<>>
    /\ posts = <<>>
    /\ loading = TRUE
    /\ feedFetch = [state |-> "none", data |-> <<>>]
    /\ postReqs = <<>>
    /\ feedAlert = "none"
    /\ refetches = <<[state |-> "sent", data |-> <<>>]>>
    /\ refetchHist = [issued |-> 1, newest |-> NoSnapshot]

RefetchNext ==
    \/ \E k \in DOMAIN refetches : RefetchAnswer(k)
    \/ \E k \in DOMAIN refetches : RefetchFail(k)
    \/ \E k \in DOMAIN refetches : RefetchReturn(k)
    \/ RefetchOnEvent
    \/ FeedChannelJoined
    \/ \E u \in Users, d \in CreateDrafts : OtherCreatePost(u, d)
    \/ \E r \in postsTable, d \in EditDrafts : OtherUpdatePost(r, d)
    \/ \E r \in postsTable : OtherDeletePost(r)

\* No refetching Feed is mounted.
RefetchIdle ==
    /\ refetches = <<>>
    /\ refetchHist = [issued |-> 0, newest |-> NoSnapshot]

(***************************************************************************)
(* CreatePost (part_001 9-88) and the edit mode of a Post (Post.tsx 299-496)*)
(***************************************************************************)

\* What a field holds: a body, with or without blanks around it.  The body of a
\* content is its length after trim(), the body of a URL is the URL or ''.
Typed(pad, body) == [pad |-> pad, body |-> body]

\* useState('')
EmptyContent == Typed(FALSE, 0)

EmptyUrl == Typed(FALSE, "")

\* What the user may type into a content field and the URL field below it:
\* nothing but blanks, or a text and a URL with blanks around them.
FieldDrafts ==
    { [content |-> Typed(TRUE, 0), url |-> EmptyUrl],
      [content |-> Typed(TRUE, 2), url |-> Typed(TRUE, "img")] }

\* content.trim()
TrimContent(text) == text.body

\* !content.trim()
Blank(text) == TrimContent(text) = 0

\* imageUrl.trim() || undefined, editImageUrl.trim() || null
TrimUrl(text) == IF text.body = "" THEN NULL ELSE text.body

\* currentImageUrl || ''
UrlText(imageUrl) == Typed(FALSE, IF imageUrl = NULL THEN "" ELSE imageUrl)

NoFormReq == [state |-> "none", id |-> 0, content |-> 0, image_url |-> NULL]

FormReq(i, c, img) == [state |-> "sent", id |-> i, content |-> c, image_url |-> img]

\* onChange of the two fields of CreatePost.
TypeDraft(text, url) ==
    /\ <<text, url>> # <<createPost.content, createPost.imageUrl>>
    /\ createPost' = [createPost EXCEPT !.content = text, !.imageUrl = url]
    /\ UNCHANGED postEdit
    /\ UNCHANGED feedVars
    /\ UNCHANGED notFormVars

\* A CreatePost that submits whatever the field holds.
SubmittableAlways(text) == TRUE

\* if (!content.trim()) return; and disabled={!content.trim() || isSubmitting}
Submittable(text) == ~Blank(text)

\* CreatePost.handleSubmit up to its await, which is App.handleCreatePost up to
\* the await of its insert.
HandleSubmit ==
    /\ ~createPost.isSubmitting
    /\ Submittable(createPost.content)
    /\ createPost' = [createPost EXCEPT
                         !.isSubmitting = TRUE,
                         !.req = FormReq(0, TrimContent(createPost.content),
                                         TrimUrl(createPost.imageUrl))]
    /\ UNCHANGED postEdit
    /\ UNCHANGED feedVars
    /\ UNCHANGED notFormVars

\* The storage service runs the insert of handleCreatePost.
CreateServerInsert ==
    /\ createPost.req.state = "sent"
    /\ IF CheckViolation(createPost.req.content)
       THEN /\ createPost' = [createPost EXCEPT !.req.state = "23514"]
            /\ UNCHANGED <<postsTable, nextPostId, feedEvents>>
       ELSE /\ nextPostId <= MaxPosts
            /\ FeedRoom
            /\ InsertPost(currentUserName, createPost.req.content,
                          createPost.req.image_url)
            /\ createPost' = [createPost EXCEPT !.req.state = "ok"]
    /\ UNCHANGED postEdit
    /\ UNCHANGED <<feedMounted, feedChannel, posts, loading, feedFetch, postReqs,
                   feedAlert>>
    /\ UNCHANGED notFormVars

\* The insert or its response is lost, or the service answers with an error.
CreateFails ==
    /\ createPost.req.state = "sent"
    /\ \E how \in {"error", "throw"} : createPost' = [createPost EXCEPT !.req.state = how]
    /\ UNCHANGED postEdit
    /\ UNCHANGED feedVars
    /\ UNCHANGED notFormVars

\* The continuation of handleCreatePost (its alert; it catches what is thrown and
\* resolves) and then that of handleSubmit: setContent(''), setImageUrl(''),
\* finally setIsSubmitting(false).
HandleSubmitReturn ==
    /\ createPost.req.state \notin {"none", "sent"}
    /\ feedAlert' = CreateAlert(createPost.req.state)
    /\ createPost' = [content |-> EmptyContent, imageUrl |-> EmptyUrl,
                      isSubmitting |-> FALSE, req |-> NoFormReq]
    /\ UNCHANGED postEdit
    /\ UNCHANGED <<postsTable, nextPostId, feedChannel, feedEvents, feedMounted, posts,
                   loading, feedFetch, postReqs>>
    /\ UNCHANGED notFormVars

\* The edit controls of the Post are rendered: authorName === currentUserName.
EditControls ==
    \E i \in DOMAIN posts : posts[i].id = postEdit.id /\ IsAuthor(posts[i].author_name)

\* handleEdit
HandleEdit ==
    /\ EditControls
    /\ ~postEdit.isEditing
    /\ postEdit' = [postEdit EXCEPT
                       !.isEditing = TRUE,
                       !.editContent = Typed(FALSE, postEdit.currentContent),
                       !.editImageUrl = UrlText(postEdit.currentImageUrl)]
    /\ UNCHANGED createPost
    /\ UNCHANGED feedVars
    /\ UNCHANGED notFormVars

\* onChange of the two edit fields.
TypeEdit(text, url) ==
    /\ postEdit.isEditing
    /\ <<text, url>> # <<postEdit.editContent, postEdit.editImageUrl>>
    /\ postEdit' = [postEdit EXCEPT !.editContent = text, !.editImageUrl = url]
    /\ UNCHANGED createPost
    /\ UNCHANGED feedVars
    /\ UNCHANGED notFormVars

\* handleCancelEdit; its button is disabled while saving.
HandleCancelEdit ==
    /\ EditControls
    /\ postEdit.isEditing
    /\ ~postEdit.isSaving
    /\ postEdit' = [postEdit EXCEPT
                       !.isEditing = FALSE,
                       !.editContent = Typed(FALSE, postEdit.currentContent),
                       !.editImageUrl = UrlText(postEdit.currentImageUrl)]
    /\ UNCHANGED createPost
    /\ UNCHANGED feedVars
    /\ UNCHANGED notFormVars

\* handleSaveEdit of the Post up to its return (blank content) or its await; its
\* button is disabled while saving.
SaveEditClick ==
    /\ EditControls
    /\ postEdit.isEditing
    /\ ~postEdit.isSaving
    /\ IF Blank(postEdit.editContent)
       THEN /\ feedAlert' = "empty"
            /\ UNCHANGED postEdit
       ELSE /\ postEdit' = [postEdit EXCEPT
                               !.isSaving = TRUE,
                               !.req = FormReq(postEdit.id,
                                               TrimContent(postEdit.editContent),
                                               TrimUrl(postEdit.editImageUrl))]
            /\ UNCHANGED feedAlert
    /\ UNCHANGED createPost
    /\ UNCHANGED <<postsTable, nextPostId, feedChannel, feedEvents, feedMounted, posts,
                   loading, feedFetch, postReqs>>
    /\ UNCHANGED notFormVars

\* The storage service runs the update of handleSaveEdit: no row (no UPDATE policy
\* lets the caller see it), or the new row.
EditServerUpdate ==
    /\ postEdit.req.state = "sent"
    /\ \E permitted \in BOOLEAN :
          IF ~permitted \/ UpdateTargets(postEdit.req) = {}
          THEN /\ postEdit' = [postEdit EXCEPT !.req.state = "norow"]
               /\ UNCHANGED <<postsTable, nextPostId, feedEvents>>
          ELSE /\ FeedRoom
               /\ UpdatePost(CHOOSE r \in UpdateTargets(postEdit.req) : TRUE,
                             postEdit.req.content, postEdit.req.image_url)
               /\ postEdit' = [postEdit EXCEPT !.req.state = "ok"]
    /\ UNCHANGED createPost
    /\ UNCHANGED <<feedMounted, feedChannel, posts, loading, feedFetch, postReqs,
                   feedAlert>>
    /\ UNCHANGED notFormVars

\* The update or its response is lost, or the service answers with an error.
EditFails ==
    /\ postEdit.req.state = "sent"
    /\ \E how \in {"error", "throw"} : postEdit' = [postEdit EXCEPT !.req.state = how]
    /\ UNCHANGED createPost
    /\ UNCHANGED feedVars
    /\ UNCHANGED notFormVars

\* A test that takes the empty array of an update without rows for a result.
ReturnedRowOrNone(outcome) == outcome \in {"ok", "norow"}

\* data && data.length > 0
ReturnedRow(outcome) == outcome = "ok"

\* The continuation of handleSaveEdit after its await: error branch, success
\* branch with onPostUpdate (the Feed's handlePostUpdate), no-row branch, catch,
\* finally.
SaveEditReturn ==
    /\ postEdit.req.state \notin {"none", "sent"}
    /\ feedAlert' = SaveEditAlert(postEdit.req.state)
    /\ IF ReturnedRow(postEdit.req.state)
       THEN /\ postEdit' = [postEdit EXCEPT
                               !.currentContent = postEdit.req.content,
                               !.currentImageUrl = postEdit.req.image_url,
                               !.isEditing = FALSE,
                               !.isSaving = FALSE,
                               !.req = NoFormReq]
            /\ posts' = HandlePostUpdate(posts, postEdit.id, postEdit.req.content,
                                         postEdit.req.image_url)
       ELSE /\ postEdit' = [postEdit EXCEPT !.isSaving = FALSE, !.req = NoFormReq]
            /\ UNCHANGED posts
    /\ UNCHANGED createPost
    /\ UNCHANGED <<postsTable, nextPostId, feedChannel, feedEvents, feedMounted,
                   loading, feedFetch, postReqs>>
    /\ UNCHANGED notFormVars

\* The content and imageUrl props the Feed passes to the Post, as a pair.
Props(list) ==
    LET mine == SelectSeq(list, LAMBDA post : post.id = postEdit.id)
    IN  IF mine = <<>> THEN <<>> ELSE <<Head(mine).content, Head(mine).image_url>>

\* The Feed's channel callback runs for the oldest undelivered event; when the
\* props of the Post change, its effect copies them into currentContent and
\* currentImageUrl.
FormDeliverEvent ==
    /\ feedEvents # <<>>
    /\ LET list == ApplyPostEvent(posts, Head(feedEvents))
       IN  /\ posts' = list
           /\ postEdit' = IF Props(list) # Props(posts) /\ Props(list) # <<>>
                          THEN [postEdit EXCEPT !.currentContent = Props(list)[1],
                                                !.currentImageUrl = Props(list)[2]]
                          ELSE postEdit
    /\ feedEvents' = Tail(feedEvents)
    /\ UNCHANGED createPost
    /\ UNCHANGED <<postsTable, nextPostId, feedMounted, feedChannel, loading, feedFetch,
                   postReqs, feedAlert>>
    /\ UNCHANGED notFormVars

\* No CreatePost and no Post in edit mode is rendered.
FormsIdle ==
    /\ createPost = [content |-> EmptyContent, imageUrl |-> EmptyUrl,
                     isSubmitting |-> FALSE, req |-> NoFormReq]
    /\ postEdit = [id |-> 0, currentContent |-> 0, currentImageUrl |-> NULL,
                   isEditing |-> FALSE, editContent |-> EmptyContent,
                   editImageUrl |-> EmptyUrl, isSaving |-> FALSE, req |-> NoFormReq]

\* The current user has one post, the Feed has loaded it and joined its channel,
\* and CreatePost and the Post of that post have just been rendered.
FormsInit ==
    /\ postsTable = {PostRow(1, currentUserName, 1, NULL)}
    /\ nextPostId = 2
    /\ feedMounted = TRUE
    /\ feedChannel = "joined"
    /\ feedEvents = <<>>
    /\ posts = SortByCreatedDesc(postsTable)
    /\ loading = FALSE
    /\ feedFetch = [state |-> "done", data |-> <<>>]
    /\ postReqs = <<>>
    /\ feedAlert = "none"
    /\ createPost = [content |-> EmptyContent, imageUrl |-> EmptyUrl,
                     isSubmitting |-> FALSE, req |-> NoFormReq]
    /\ postEdit = [id |-> 1, currentContent |-> 1, currentImageUrl |-> NULL,
                   isEditing |-> FALSE, editContent |-> Typed(FALSE, 1),
                   editImageUrl |-> EmptyUrl, isSaving |-> FALSE, req |-> NoFormReq]

FormsNext ==
    \/ \E d \in FieldDrafts : TypeDraft(d.content, d.url)
    \/ HandleSubmit
    \/ CreateServerInsert
    \/ CreateFails
    \/ HandleSubmitReturn
    \/ HandleEdit
    \/ \E d \in FieldDrafts : TypeEdit(d.content, d.url)
    \/ HandleCancelEdit
    \/ SaveEditClick
    \/ EditServerUpdate
    \/ EditFails
    \/ SaveEditReturn
    \/ FormDeliverEvent

(***************************************************************************)
(* lib/supabase.ts: the configured client and the two placeholder clients  *)
(***************************************************************************)

\* Browser tabs running the application.
NumClients == 2

Clients == 1..NumClients

\* The builds of lib/supabase.ts: createClient, the placeholder whose select,
\* insert and upsert return promises, and the placeholder whose object is thenable.
Backends == {"configured", "placeholder_promise", "placeholder_thenable"}

\* What each method of the object returned by the placeholder's from() does; a
\* method outside the domain is undefined on it.
PlaceholderFrom(b) ==
    IF b = "placeholder_promise"
    THEN [select |-> "resolve_empty", insert |-> "resolve_error",
          upsert |-> "resolve_error", eq |-> "this", order |-> "this"]
    ELSE [select |-> "this", insert |-> "this", upsert |-> "this", eq |-> "this",
          order |-> "this", then |-> "resolve_empty"]

RECURSIVE CallChain(_, _, _)
\* supabase.from(t).m1(...).m2(...): cur is "this" while the from() object is at
\* hand, a promise once a method has returned one, "TypeError" once a call has hit
\* a method that is not there (a promise has none of the builder's methods).
CallChain(from, cur, calls) ==
    IF calls = <<>> \/ cur = "TypeError" THEN cur
    ELSE IF cur = "this" /\ Head(calls) \in DOMAIN from
         THEN CallChain(from, from[Head(calls)], Tail(calls))
         ELSE "TypeError"

\* const { data, error } = await <chain>: the outcome the handler sees.  Awaiting
\* the from() object itself calls its then, or yields the object when it has none
\* (data and error are then undefined).
AwaitChain(from, calls) ==
    LET end == CallChain(from, "this", calls)
    IN  CASE end = "TypeError" -> "throw"
          [] end = "resolve_error" -> "error"
          [] OTHER -> "ok"

\* The calls each operation makes on supabase.from(...).
OpCalls(op) ==
    CASE op = "handleAuth" -> <<"upsert">>
      [] op = "fetchPosts" -> <<"select", "order">>
      [] op = "handleCreatePost" -> <<"insert", "select">>

(***************************************************************************)
(* Storage: table users; App: handleAuth, handleLogout (App.tsx 9-43)      *)
(***************************************************************************)

\* Largest users.id the model hands out (name is UNIQUE, so the table stays below).
MaxUserId == 2 * (NumOthers + 1)

UserRow(i, n) == [id |-> i, name |-> n]

\* currentUser === null, and localStorage without the key 'truthvote-user'.
NoUser == -1

NoAuthReq == [state |-> "none", name |-> NoUser]

\* A users table without UNIQUE on name.
NameNeverTaken(n) == FALSE

\* name text UNIQUE: the conflict target of the upsert.
NameTaken(n) == \E r \in usersTable : r.name = n

\* handleAuth up to its await; the sign-in modal calls it.
HandleAuth(c, n) ==
    /\ showAuthModal[c]
    /\ authReqs[c].state = "none"
    /\ authReqs' = [authReqs EXCEPT ![c] = [state |-> "sent", name |-> n]]
    /\ UNCHANGED <<backend, usersTable, nextUserId, currentUser, localStorage,
                   showAuthModal, appAlert>>
    /\ UNCHANGED notAppVars

\* The storage service runs .upsert({ name }, { onConflict: 'name' }): a new row,
\* or the update of the row that has the name.  Row-level security is on and the
\* migration defines no UPDATE policy for users, so the update path is refused
\* unless the caller's role is not subject to it.
ServerUpsert(c) ==
    /\ backend = "configured"
    /\ authReqs[c].state = "sent"
    /\ IF NameTaken(authReqs[c].name)
       THEN /\ \E permitted \in BOOLEAN :
                  authReqs' = [authReqs EXCEPT
                                  ![c].state = IF permitted THEN "ok" ELSE "42501"]
            /\ UNCHANGED <<usersTable, nextUserId>>
       ELSE /\ nextUserId <= MaxUserId
            /\ usersTable' = usersTable \cup {UserRow(nextUserId, authReqs[c].name)}
            /\ nextUserId' = nextUserId + 1
            /\ authReqs' = [authReqs EXCEPT ![c].state = "ok"]
    /\ UNCHANGED <<backend, currentUser, localStorage, showAuthModal, appAlert>>
    /\ UNCHANGED notAppVars

\* The request or its response is lost, or the service answers with an error.
AuthReqFails(c) ==
    /\ backend = "configured"
    /\ authReqs[c].state = "sent"
    /\ \E how \in {"error", "throw"} : authReqs' = [authReqs EXCEPT ![c].state = how]
    /\ UNCHANGED <<backend, usersTable, nextUserId, currentUser, localStorage,
                   showAuthModal, appAlert>>
    /\ UNCHANGED notAppVars

\* The placeholder client settles the upsert.
PlaceholderUpsert(c) ==
    /\ backend # "configured"
    /\ authReqs[c].state = "sent"
    /\ authReqs' = [authReqs EXCEPT
                       ![c].state = AwaitChain(PlaceholderFrom(backend),
                                               OpCalls("handleAuth"))]
    /\ UNCHANGED <<backend, usersTable, nextUserId, currentUser, localStorage,
                   showAuthModal, appAlert>>
    /\ UNCHANGED notAppVars

\* The continuation of handleAuth after its await: if (!error) { ... }, catch.
HandleAuthReturn(c) ==
    /\ authReqs[c].state \notin {"none", "sent"}
    /\ IF authReqs[c].state = "ok"
       THEN /\ currentUser' = [currentUser EXCEPT ![c] = authReqs[c].name]
            /\ localStorage' = authReqs[c].name
            /\ showAuthModal' = [showAuthModal EXCEPT ![c] = FALSE]
       ELSE UNCHANGED <<currentUser, localStorage, showAuthModal>>
    /\ authReqs' = [authReqs EXCEPT ![c] = NoAuthReq]
    /\ UNCHANGED <<backend, usersTable, nextUserId, appAlert>>
    /\ UNCHANGED notAppVars

\* handleLogout; its button is rendered while a user is set.
HandleLogout(c) ==
    /\ currentUser[c] # NoUser
    /\ currentUser' = [currentUser EXCEPT ![c] = NoUser]
    /\ localStorage' = NoUser
    /\ showAuthModal' = [showAuthModal EXCEPT ![c] = TRUE]
    /\ UNCHANGED <<backend, usersTable, nextUserId, authReqs, appAlert>>
    /\ UNCHANGED notAppVars

\* fetchPosts logs its failures and alerts nothing.
FetchPostsAlert(outcome) == "none"

\* alert() of the operation for the outcome of its call.
OpAlert(op, outcome) ==
    IF op = "handleCreatePost" THEN CreateAlert(outcome) ELSE FetchPostsAlert(outcome)

\* With a placeholder client and a user set, the Feed loads or the user submits a
\* post: the call settles at once and the handler runs to its end.  The Feed's
\* list stays empty, so no Post (and none of its handlers) is ever rendered.
PlaceholderCall(c, op) ==
    /\ backend # "configured"
    /\ currentUser[c] # NoUser
    /\ appAlert' = [appAlert EXCEPT
                       ![c] = OpAlert(op, AwaitChain(PlaceholderFrom(backend), OpCalls(op)))]
    /\ UNCHANGED <<backend, usersTable, nextUserId, currentUser, localStorage,
                   showAuthModal, authReqs>>
    /\ UNCHANGED notAppVars

\* After App's mount effect in every tab: the user kept in localStorage, if any,
\* is the current user and has a row; otherwise the sign-in modal is open.
AppInit ==
    /\ backend \in Backends
    /\ localStorage \in Users \cup {NoUser}
    /\ currentUser = [c \in Clients |-> localStorage]
    /\ showAuthModal = [c \in Clients |-> localStorage = NoUser]
    /\ usersTable = {UserRow(n + 1, n) : n \in {localStorage} \ {NoUser}}
    /\ nextUserId = NumOthers + 2
    /\ authReqs = [c \in Clients |-> NoAuthReq]
    /\ appAlert = [c \in Clients |-> "none"]

AppNext ==
    \/ \E c \in Clients, n \in Users : HandleAuth(c, n)
    \/ \E c \in Clients : ServerUpsert(c)
    \/ \E c \in Clients : AuthReqFails(c)
    \/ \E c \in Clients : PlaceholderUpsert(c)
    \/ \E c \in Clients : HandleAuthReturn(c)
    \/ \E c \in Clients : HandleLogout(c)
    \/ \E c \in Clients, op \in {"fetchPosts", "handleCreatePost"} : PlaceholderCall(c, op)

\* The application is not open in any tab.
AppIdle ==
    /\ backend = "configured"
    /\ localStorage = NoUser
    /\ currentUser = [c \in Clients |-> NoUser]
    /\ showAuthModal = [c \in Clients |-> TRUE]
    /\ usersTable = {}
    /\ nextUserId = NumOthers + 2
    /\ authReqs = [c \in Clients |-> NoAuthReq]
    /\ appAlert = [c \in Clients |-> "none"]

(***************************************************************************)
(* Specifications                                                          *)
(***************************************************************************)

\* lib/analyzer.ts with no key configured and getAnalysis never called.
AnalysisIdle ==
    /\ AnalysisInit
    /\ openai = FALSE
    /\ genAI = FALSE

\* No Post instance is mounted.
VoteIdle ==
    /\ postExists = TRUE
    /\ serverVotes = {}
    /\ nextId = NumOthers + 2
    /\ subscribed = FALSE
    /\ events = <<>>
    /\ votes = <<>>
    /\ userVote = NULL
    /\ optimisticVote = NULL
    /\ isVoting = FALSE
    /\ fetchReq = [state |-> "none"]
    /\ voteReqs = <<>>
    /\ alertShown = "none"
    /\ hist = NoHist

\* A Post is mounted; the analyzer module is loaded without keys and never called.
VoteStart == VoteInit /\ AnalysisIdle /\ FeedIdle /\ AppIdle /\ RefetchIdle /\ FormsIdle

SpecVote == VoteStart /\ [][VoteNext]_vars

\* The analyzer module is loaded; no Post is mounted.
AnalysisStart == AnalysisInit /\ VoteIdle /\ FeedIdle /\ AppIdle /\ RefetchIdle /\ FormsIdle

SpecAnalysis == AnalysisStart /\ [][AnalysisNext]_vars

\* A Feed is mounted; no Post has fetched votes and the analyzer is never called.
FeedStart == FeedInit /\ VoteIdle /\ AnalysisIdle /\ AppIdle /\ RefetchIdle /\ FormsIdle

SpecFeed == FeedStart /\ [][FeedNext]_vars

\* The application is open in every tab; no Feed or Post request is modelled.
AppStart == AppInit /\ VoteIdle /\ AnalysisIdle /\ FeedIdle /\ RefetchIdle /\ FormsIdle

SpecApp == AppStart /\ [][AppNext]_vars

\* A refetching Feed is mounted; nothing else runs.
RefetchStart == RefetchInit /\ VoteIdle /\ AnalysisIdle /\ AppIdle /\ FormsIdle

SpecRefetch == RefetchStart /\ [][RefetchNext]_vars

\* CreatePost and one Post of the current user are rendered above a loaded Feed.
FormsStart == FormsInit /\ VoteIdle /\ AnalysisIdle /\ AppIdle /\ RefetchIdle

SpecForms == FormsStart /\ [][FormsNext]_vars

(***************************************************************************)
(* Properties of the Post component and the votes table (SpecVote)         *)
(***************************************************************************)

\* Locally held votes of type t cast by someone other than the current user.
OthersHeld(t) ==
    Cardinality({i \in DOMAIN votes :
                    votes[i].user_name # currentUserName /\ votes[i].vote_type = t})

\* The optimistic marker if set, else the confirmed vote, is t.
EffectiveIs(t) == optimisticVote = t \/ (optimisticVote = NULL /\ userVote = t)

\* C1: the displayed true (fake) count is the number of locally held true (fake)
\* votes of other users, plus 1 exactly when the effective vote is true (fake);
\* the current user adds at most 1 to the two counts together.
C1_TallyCountsUserOnce ==
    /\ trueVotes = OthersHeld("true") + (IF EffectiveIs("true") THEN 1 ELSE 0)
    /\ fakeVotes = OthersHeld("fake") + (IF EffectiveIs("fake") THEN 1 ELSE 0)
    /\ (trueVotes + fakeVotes) - (OthersHeld("true") + OthersHeld("fake")) \in {0, 1}

\* The optimistic marker and the current user's confirmed row are both present.
C1_Witness ==
    /\ optimisticVote # NULL
    /\ userVote # NULL
    /\ \E i \in DOMAIN votes : votes[i].user_name = currentUserName

\* C2: an insert is issued only from a state with no confirmed vote, no optimistic
\* marker and no insert in flight; at most one insert is in flight at any time.
C2_InsertOnlyWhenNoVote ==
    /\ Len(voteReqs) <= 1
    /\ [][/\ Len(voteReqs') <= 1
          /\ Len(voteReqs') > Len(voteReqs) =>
                /\ userVote = NULL
                /\ optimisticVote = NULL
                /\ ~isVoting
                /\ voteReqs = <<>>]_vars

\* An insert is in flight while the confirmed vote has arrived.
C2_Witness == Len(voteReqs) = 1 /\ userVote # NULL /\ isVoting

\* C3: once the fetch has returned its rows, the channel is joined, every event has
\* been delivered and no vote is pending, the displayed counts are the server's.
ServerCount(t) == Cardinality({r \in serverVotes : r.vote_type = t})

C3_CountsMatchServer ==
    (/\ fetchReq.state = "done"
     /\ subscribed
     /\ events = <<>>
     /\ optimisticVote = NULL
     /\ voteReqs = <<>>)
    => (trueVotes = ServerCount("true") /\ fakeVotes = ServerCount("fake"))

\* C4: when the insert of handleVote has failed, the continuation clears the
\* optimistic marker, leaves votes and userVote alone and alerts exactly when the
\* failure is not the uniqueness violation 23505; isVoting is false when
\* handleVote has finished, whatever the outcome.
C4_FailedVoteReverts ==
    [][(voteReqs # <<>> /\ voteReqs' = <<>>) =>
          /\ ~isVoting'
          /\ voteReqs[1].state # "ok" =>
                /\ optimisticVote' = NULL
                /\ votes' = votes
                /\ userVote' = userVote
                /\ (alertShown' # "none") <=> (voteReqs[1].state # "23505")]_vars

\* handleVote has finished after a failure that was alerted.
C4_Witness ==
    /\ alertShown = "vote_failed"
    /\ voteReqs = <<>>
    /\ ~isVoting
    /\ optimisticVote = NULL

\* The insert of this instance succeeded and returned, and the INSERT event of its
\* row (and no DELETE event of it) has been delivered.
InsertedAndConfirmed == hist.returned /\ hist.ins /\ ~hist.del

ConfirmedState ==
    /\ optimisticVote = NULL
    /\ userVote = hist.vote_type
    /\ \E i \in DOMAIN votes : votes[i].id = hist.row

\* The DELETE handler: the row is gone from votes and, if it was the current
\* user's, userVote and optimisticVote are null.
DeleteApplied ==
    (events # <<>> /\ Head(events).eventType = "DELETE" /\ events' = Tail(events)) =>
        /\ \A i \in DOMAIN votes' : votes'[i].id # Head(events).row.id
        /\ Head(events).row.user_name = currentUserName =>
              (userVote' = NULL /\ optimisticVote' = NULL)

\* C5: at the step that completes a successful insert and the delivery of its
\* INSERT event, in either order, the marker is null, userVote is the vote cast
\* and the row is in votes; a DELETE event removes the row and clears the
\* current user's vote and marker.
C5_InsertConfirmed ==
    [][/\ (~InsertedAndConfirmed /\ InsertedAndConfirmed') => ConfirmedState'
       /\ DeleteApplied]_vars

\* The second sentence of C5 alone.
C5_DeleteHandler == [][DeleteApplied]_vars

\* C6: the votes table holds at most one row per voter of the post; an insert adds
\* exactly one row for a voter that had none, and an insert of this instance for
\* a voter that has a row fails with 23505 and adds nothing.
OneRowPerVoter ==
    \A u \in Users : Cardinality({r \in serverVotes : r.user_name = u}) <= 1

C6_OneVotePerVoter ==
    /\ OneRowPerVoter
    /\ [][/\ OneRowPerVoter'
          /\ \A r \in serverVotes' \ serverVotes :
                /\ serverVotes' = serverVotes \cup {r}
                /\ ~\E q \in serverVotes : q.user_name = r.user_name
          /\ \A i \in DOMAIN voteReqs :
                (/\ voteReqs[i].state = "sent"
                 /\ i \in DOMAIN voteReqs'
                 /\ voteReqs'[i].state \notin {"sent", "throw"}
                 /\ \E q \in serverVotes : q.user_name = currentUserName)
                => (voteReqs'[i].state = "23505" /\ serverVotes' = serverVotes)]_vars

\* The insert of this instance lost against one of the same user from another tab.
C6_Witness ==
    /\ voteReqs # <<>>
    /\ voteReqs[1].state = "23505"
    /\ userVote = NULL
    /\ \E r \in serverVotes : r.user_name = currentUserName

(***************************************************************************)
(* Properties of lib/analyzer.ts (SpecAnalysis)                            *)
(***************************************************************************)

\* A provider result whose true_rate is an integer of 0..MaxRate and whose lists
\* are lists.
WellTyped(res) ==
    /\ res.kind = "return"
    /\ res.value.true_rate.t = "num"
    /\ res.value.true_rate.n \in 0..MaxRate
    /\ res.value.reasoning.t = "arr"
    /\ res.value.sources.t = "arr"

\* C7: for provider results with rates r1 and r2 in 0..100 the combined rate is
\* (r1 + r2) / 2 rounded to the nearest integer, halves up, and the verdict is
\* True iff the rate is above 70, False iff below 30, Mixed otherwise.
C7_AverageAndThresholds ==
    (apc = "done" /\ WellTyped(openaiRes) /\ WellTyped(geminiRes)) =>
        /\ combined.kind = "return"
        /\ LET sum == openaiRes.value.true_rate.n + geminiRes.value.true_rate.n
               c == combined.value.true_rate
               v == combined.value.verdict
           IN  /\ c.t = "num"
               /\ 2 * c.n - sum \in {0, 1}
               /\ (v = "True") <=> (c.n > 70)
               /\ (v = "False") <=> (c.n < 30)
               /\ (v = "Mixed") <=> (c.n >= 30 /\ c.n <= 70)

\* 70.5 rounds up to 71, which is True, though one model said False.
C7_Witness ==
    /\ apc = "done"
    /\ combined.kind = "return"
    /\ combined.value.true_rate = Num(71)
    /\ openaiRes.value.true_rate = Num(41)
    /\ geminiRes.value.true_rate = Num(100)
    /\ openaiRes.value.verdict = Str("False")
    /\ combined.value.verdict = "True"

IsPlaceholder(res) ==
    /\ res.kind = "return"
    /\ res.value.verdict = Str("Mixed")
    /\ res.value.true_rate = Num(50)
    /\ res.value.reasoning.t = "arr"
    /\ Len(res.value.reasoning.a) = 1
    /\ res.value.sources = Arr(<<>>)

\* The client is null, the call throws, or the response is no parseable JSON.
OpenAIFailed == ~openai \/ openaiIn.kind \in {"throws", "unparseable"}
GeminiFailed == ~genAI \/ geminiIn.kind \in {"throws", "no_json", "unparseable"}

\* C8: a provider call that is unconfigured, throws or gets no parseable JSON
\* settles with the placeholder and never raises, and a settled result is not
\* changed by what the other provider does.
C8_PlaceholderOnFailure ==
    /\ [](openaiRes.kind # "throw" /\ geminiRes.kind # "throw")
    /\ []((openaiRes # Pending /\ OpenAIFailed) => IsPlaceholder(openaiRes))
    /\ []((geminiRes # Pending /\ GeminiFailed) => IsPlaceholder(geminiRes))
    /\ [][/\ openaiRes # Pending => openaiRes' = openaiRes
          /\ geminiRes # Pending => geminiRes' = geminiRes]_vars

\* OpenAI threw while Gemini answered with a rate of its own.
C8_Witness ==
    /\ openai
    /\ openaiIn.kind = "throws"
    /\ IsPlaceholder(openaiRes)
    /\ geminiRes.kind = "return"
    /\ geminiRes.value.true_rate = Num(90)

\* C9: getAnalysis settles with a combined result and never raises, and a failed
\* web lookup yields the fallback context.
C9_NeverRaises ==
    /\ apc = "done" => combined.kind = "return"
    /\ webContext.kind # "throw"
    /\ webIn \in {"network_failure", "unparseable"} => webContext = Ret(WebFallback)

\* The web part of C9 alone.
C9_WebFallback ==
    /\ webContext.kind # "throw"
    /\ webIn \in {"network_failure", "unparseable"} => webContext = Ret(WebFallback)

\* C10: two placeholder results combine to rate 50, verdict Mixed, one reasoning
\* line per provider and no sources.
C10_TwoPlaceholders ==
    (apc = "done" /\ OpenAIFailed /\ GeminiFailed) =>
        /\ combined.kind = "return"
        /\ combined.value.true_rate = Num(50)
        /\ combined.value.verdict = "Mixed"
        /\ Len(combined.value.reasoning) = 2
        /\ combined.value.reasoning[1] = "OpenAI: " \o openaiRes.value.reasoning.a[1]
        /\ combined.value.reasoning[2] = "Gemini: " \o geminiRes.value.reasoning.a[1]
        /\ combined.value.sources = <<>>

\* OpenAI is not configured and Gemini answered without JSON.
C10_Witness ==
    /\ apc = "done"
    /\ ~openai
    /\ genAI
    /\ geminiIn.kind = "no_json"
    /\ combined.kind = "return"

(***************************************************************************)
(* Properties of the votes table's life cycle (SpecVote)                   *)
(***************************************************************************)

\* C16: deleting a post removes every vote that references it: no vote row
\* outlives its post, and a vote query answered after the post's deletion
\* returns the empty set.
C16_CascadeDelete ==
    /\ [](~postExists => serverVotes = {})
    /\ [][(~postExists /\ fetchReq.state = "sent" /\ fetchReq'.state = "data")
            => fetchReq'.data = <<>>]_vars

\* The instance's own vote was stored, then the post was deleted, and the vote
\* query was answered after that.
C16_Witness ==
    /\ ~postExists
    /\ hist.row # 0
    /\ fetchReq.state = "data"
    /\ fetchReq.data = <<>>

\* The row of the current user, if the table holds one.
OwnRows == {r \in serverVotes : r.user_name = currentUserName}

\* C17: a stored vote row is never changed and disappears only with its post; a
\* confirmed vote held by the Post component is the type of the current user's
\* one row and is never replaced by the other type.
C17_VoteNeverChanges ==
    /\ [][/\ \A r \in serverVotes : r \in serverVotes' \/ ~postExists'
          /\ (userVote # NULL /\ userVote' # NULL) => userVote' = userVote]_vars
    /\ [](userVote # NULL /\ postExists => \E r \in OwnRows : r.vote_type = userVote)
    /\ [](\A r1, r2 \in OwnRows : r1 = r2)

\* The component holds a confirmed vote while the same user's attempt to vote the
\* other type from another tab has been refused.
C17_Witness ==
    /\ userVote = "true"
    /\ postExists
    /\ voteReqs # <<>>
    /\ voteReqs[1].vote_type = "fake"
    /\ voteReqs[1].state = "23505"

(***************************************************************************)
(* Properties of the Feed, the Post controls and the posts table (SpecFeed)*)
(***************************************************************************)

\* The entries of the Feed's list, as a set of rows.
ListedRows == {posts[i] : i \in DOMAIN posts}

\* The load has returned, the channel is joined, every event has been delivered
\* and no request of this client is under way.
FeedQuiet ==
    /\ feedMounted
    /\ feedFetch.state = "done"
    /\ feedChannel = "joined"
    /\ feedEvents = <<>>
    /\ postReqs = <<>>

\* C11: once the load has returned and every event has been delivered, the
\* incremental Feed lists exactly the posts the server holds, each once and with
\* the server's current content and image URL.
C11_FeedMatchesServer ==
    FeedQuiet => (ListedRows = postsTable /\ Len(posts) = Cardinality(postsTable))

\* C12: after the initial load and after every applied event the Feed's list is
\* ordered by creation time, newest first.
C12_NewestFirst ==
    \A i, j \in DOMAIN posts : i < j => posts[i].created_at >= posts[j].created_at

\* The step is the channel callback of a mounted Feed running for payload e.
DeliversTo(e) ==
    /\ feedMounted
    /\ feedEvents # <<>>
    /\ e = Head(feedEvents)
    /\ feedEvents' = Tail(feedEvents)

\* C13: an insert event puts the new post at the head and keeps the rest; a
\* delete event removes exactly the entries with the matching id; an update event
\* replaces the matching entry at its position and keeps the length and the ids;
\* an update or delete event for an id that is not listed changes nothing.
C13_EventFrame ==
    [][\A e \in {feedEvents[i] : i \in DOMAIN feedEvents} : DeliversTo(e) =>
          /\ e.eventType = "INSERT" =>
                (posts' # <<>> /\ Head(posts') = e.row /\ Tail(posts') = posts)
          /\ e.eventType = "DELETE" =>
                posts' = SelectSeq(posts, LAMBDA p : p.id # e.row.id)
          /\ e.eventType = "UPDATE" =>
                /\ Len(posts') = Len(posts)
                /\ \A i \in DOMAIN posts :
                      /\ posts'[i].id = posts[i].id
                      /\ posts'[i] = IF posts[i].id = e.row.id THEN e.row ELSE posts[i]
          /\ (e.eventType # "INSERT" /\ \A i \in DOMAIN posts : posts[i].id # e.row.id)
                => posts' = posts]_vars

\* Before the load has been answered the list holds two posts of another user, the
\* newer one first, and the older one with edited content: two insert events and
\* an update event have been applied.
C13_Witness ==
    /\ feedFetch.state = "sent"
    /\ Len(posts) = 2
    /\ posts[1].id = 2
    /\ posts[2].id = 1
    /\ posts[2].content = ContentLimit
    /\ posts[2].author_name # currentUserName

\* C14: the realtime channel a Feed subscribed on mount is removed when the Feed
\* unmounts: no subscription of an unmounted instance remains open.
C14_ChannelRemovedOnUnmount == ~feedMounted => feedChannel = "closed"

\* C15: the current user's handleDelete and handleSaveEdit issue no delete or
\* update request for a post of another author, and no request of this client
\* removes or changes such a post.
C15_AuthorOnly ==
    /\ [](\A k \in DOMAIN postReqs : postReqs[k].kind \in {"delete", "update"} =>
             /\ postReqs[k].author = currentUserName
             /\ \A r \in postsTable :
                   r.id = postReqs[k].id => r.author_name = currentUserName)
    /\ [][postReqs' # postReqs =>
             \A r \in postsTable : r.author_name # currentUserName => r \in postsTable']_vars

\* The current user's delete has been carried out while the Feed also lists a
\* post of another author.
C15_Witness ==
    /\ \E k \in DOMAIN postReqs : postReqs[k].kind = "delete" /\ postReqs[k].state = "ok"
    /\ \E i \in DOMAIN posts : posts[i].author_name # currentUserName
    /\ \E r \in postsTable : r.author_name # currentUserName

\* Request k asks for content beyond the limit.
TooLong(k) == postReqs[k].content > ContentLimit

\* C18: an insert or update with content of more than 500 characters never
\* succeeds and leaves the posts table unchanged, every stored post has at most
\* 500 characters, and the handler that issued it ends with an alert.
C18_ContentLimit ==
    /\ [](\A r \in postsTable : r.content <= ContentLimit)
    /\ [](\A k \in DOMAIN postReqs : TooLong(k) => postReqs[k].state # "ok")
    /\ [][\A k \in DOMAIN postReqs :
             /\ (/\ TooLong(k)
                 /\ postReqs[k].state = "sent"
                 /\ Len(postReqs') = Len(postReqs)
                 /\ postReqs'[k].state # "sent")
                   => postsTable' = postsTable
             /\ (TooLong(k) /\ postReqs' = RemoveAt(postReqs, k))
                   => feedAlert' # "none"]_vars

\* The storage service has refused an update to content beyond the limit.
C18_Witness ==
    \E k \in DOMAIN postReqs :
        /\ postReqs[k].kind = "update"
        /\ TooLong(k)
        /\ postReqs[k].state = "23514"

(***************************************************************************)
(* Properties of App and the placeholder clients (SpecApp)                 *)
(***************************************************************************)

\* C19: with a placeholder client no user operation ends in a user-facing alert.
C19_PlaceholderSilent ==
    backend # "configured" => \A c \in Clients : appAlert[c] = "none"

\* The rows of table users that carry name n.
RowsNamed(n) == {r \in usersTable : r.name = n}

\* C20: sign-in is an upsert by name: however the sign-ins of the tabs interleave,
\* no name has two rows and no row disappears, a name whose upsert has succeeded
\* has exactly one row, and the continuation of a successful sign-in sets the
\* current user to that name.
C20_UpsertByName ==
    /\ [](\A n \in Users : Cardinality(RowsNamed(n)) <= 1)
    /\ [](\A c \in Clients : (backend = "configured" /\ authReqs[c].state = "ok")
             => Cardinality(RowsNamed(authReqs[c].name)) = 1)
    /\ [][/\ usersTable \subseteq usersTable'
          /\ \A c \in Clients :
                (authReqs[c].state = "ok" /\ authReqs'[c].state = "none")
                   => currentUser'[c] = authReqs[c].name]_vars

\* Two tabs have signed in with the same name at the same time and both upserts
\* have succeeded.
C20_Witness ==
    /\ backend = "configured"
    /\ authReqs[1].state = "ok"
    /\ authReqs[2].state = "ok"
    /\ authReqs[1].name = authReqs[2].name

(***************************************************************************)
(* Properties of getAnalysis: calls and combined lists (SpecAnalysis)      *)
(***************************************************************************)

\* The elements of a sequence.
Range(seq) == {seq[i] : i \in DOMAIN seq}

\* C21: the two provider calls start only after the web context has resolved,
\* both get the same claim text (with the image reference) and the same context,
\* the aggregation runs only after both have settled, and its result is a
\* function of the two outcomes alone, whichever settled first.
C21_CallOrder ==
    /\ (provCalls.openai # NoArgs \/ provCalls.gemini # NoArgs
        \/ openaiRes # Pending \/ geminiRes # Pending) => webContext.kind = "return"
    /\ apc \in {"calling", "done"} =>
          /\ provCalls.openai = provCalls.gemini
          /\ provCalls.openai.claim = FullText(PostText, provCalls.imageUrl)
          /\ provCalls.openai.webContext = webContext.value
    /\ (combined # Pending \/ apc = "done") => (openaiRes # Pending /\ geminiRes # Pending)
    /\ apc = "done" =>
          combined = Combine(AnalyzeWithOpenAI(openai, openaiIn),
                             AnalyzeWithGemini(genAI, geminiIn))

\* getAnalysis has returned for a post with an image after both providers
\* answered with JSON.
C21_Witness ==
    /\ apc = "done"
    /\ combined.kind = "return"
    /\ provCalls.imageUrl # ""
    /\ openaiIn.kind = "json"
    /\ geminiIn.kind = "json"

\* C22: the combined reasoning is every line of OpenAI in order, each prefixed
\* "OpenAI: ", followed by every line of Gemini in order, each prefixed
\* "Gemini: "; its length is the sum of the two lengths.
C22_CombinedReasoning ==
    (apc = "done" /\ combined.kind = "return") =>
        LET o == openaiRes.value.reasoning.a
            g == geminiRes.value.reasoning.a
            c == combined.value.reasoning
        IN  /\ Len(c) = Len(o) + Len(g)
            /\ \A i \in DOMAIN o : c[i] = "OpenAI: " \o o[i]
            /\ \A j \in DOMAIN g : c[Len(o) + j] = "Gemini: " \o g[j]

\* Two lines of OpenAI and one line of Gemini have been combined.
C22_Witness ==
    /\ apc = "done"
    /\ combined.kind = "return"
    /\ Len(openaiRes.value.reasoning.a) = 2
    /\ Len(geminiRes.value.reasoning.a) = 1

\* C23: the combined source list holds no URL twice and, as a set, is the union
\* of the two providers' source lists.
C23_CombinedSources ==
    (apc = "done" /\ combined.kind = "return") =>
        LET c == combined.value.sources
        IN  /\ \A i, j \in DOMAIN c : i # j => c[i] # c[j]
            /\ Range(c) = Range(openaiRes.value.sources.a)
                             \cup Range(geminiRes.value.sources.a)

\* One provider listed the same URL twice and the other listed one of its URLs
\* again.
C23_Witness ==
    /\ apc = "done"
    /\ combined.kind = "return"
    /\ Len(openaiRes.value.sources.a) = 3
    /\ Len(geminiRes.value.sources.a) = 1
    /\ Len(combined.value.sources) = 2

\* The normalized result res keeps the rate and the verdict of the parsed
\* response in.
KeepsRateAndVerdict(in, res) ==
    (in.kind = "json" /\ res.kind = "return") =>
        /\ (in.obj.true_rate.t = "num" /\ in.obj.true_rate.n \in 0..MaxRate)
              => res.value.true_rate = in.obj.true_rate
        /\ (in.obj.true_rate.t = "num" /\ in.obj.true_rate.n \in 0..MaxRate
            /\ in.obj.verdict \in {Str("True"), Str("False"), Str("Mixed")})
              => res.value.verdict = in.obj.verdict

\* C24: a parseable response with an integer true_rate in 0..100 keeps that rate
\* in the normalized result, and its verdict when it is True, False or Mixed.
C24_RateKept ==
    /\ KeepsRateAndVerdict(openaiIn, openaiRes)
    /\ KeepsRateAndVerdict(geminiIn, geminiRes)

(***************************************************************************)
(* Properties of the optimistic marker (SpecVote)                          *)
(***************************************************************************)

\* C25: the optimistic marker set by handleVote is cleared only by the
\* continuation of a failed insert or by the delivery of a vote event of the
\* current user; in particular not by the continuation of fetchVotes.
C25_MarkerKept ==
    [][(optimisticVote # NULL /\ optimisticVote' = NULL) =>
          \/ \E i \in DOMAIN voteReqs :
                /\ voteReqs[i].state \notin {"sent", "ok"}
                /\ voteReqs' = RemoveAt(voteReqs, i)
          \/ /\ events # <<>>
             /\ events' = Tail(events)
             /\ Head(events).row.user_name = currentUserName]_vars

(***************************************************************************)
(* Properties of the Feed's list (SpecFeed)                                *)
(***************************************************************************)

\* C26: the Feed's list never holds two entries with the same post id.
C26_NoDuplicateIds ==
    \A i, j \in DOMAIN posts : i # j => posts[i].id # posts[j].id

(***************************************************************************)
(* Properties of the refetching Feed (SpecRefetch)                         *)
(***************************************************************************)

\* C27: when no call of fetchPosts is awaited any more, the list is the newest
\* snapshot the storage service has handed out: the response of an older
\* snapshot has not replaced it, in whatever order the responses arrived.
C27_NewestSnapshotWins ==
    (refetches = <<>> /\ refetchHist.newest.taken) => posts = refetchHist.newest.data

(***************************************************************************)
(* Properties of CreatePost and of the edit mode of a Post (SpecForms)     *)
(***************************************************************************)

\* The continuation of handleSaveEdit runs in this step.
SaveReturns == postEdit.req.state \notin {"none", "sent"} /\ postEdit'.req.state = "none"

\* The list with the content and image URL of post id replaced, nothing else.
WithEntry(list, id, c, img) ==
    [i \in DOMAIN list |->
        IF list[i].id = id THEN [list[i] EXCEPT !.content = c, !.image_url = img]
        ELSE list[i]]

\* C28: a save sends the trimmed edit fields; when the update returns a row, the
\* Post shows them, the Feed's entry of the post gets them, every other entry is
\* untouched and edit mode ends; when the content is blank, or the update fails
\* or returns no row, the shown content and the Feed's list stay as they are and
\* edit mode stays on; isSaving is false whenever no save is awaited.
C28_SaveEdit ==
    /\ [](postEdit.req.state = "none" => ~postEdit.isSaving)
    /\ [][/\ (postEdit.req.state = "none" /\ postEdit'.req.state = "sent") =>
                /\ ~Blank(postEdit.editContent)
                /\ postEdit'.req.content = TrimContent(postEdit.editContent)
                /\ postEdit'.req.image_url = TrimUrl(postEdit.editImageUrl)
          /\ (SaveReturns /\ postEdit.req.state = "ok") =>
                /\ postEdit'.currentContent = postEdit.req.content
                /\ postEdit'.currentImageUrl = postEdit.req.image_url
                /\ posts' = WithEntry(posts, postEdit.id, postEdit.req.content,
                                      postEdit.req.image_url)
                /\ ~postEdit'.isEditing
          /\ (SaveReturns /\ postEdit.req.state # "ok") =>
                /\ postEdit'.currentContent = postEdit.currentContent
                /\ postEdit'.currentImageUrl = postEdit.currentImageUrl
                /\ posts' = posts
                /\ postEdit'.isEditing
          /\ (feedAlert # "empty" /\ feedAlert' = "empty") =>
                /\ Blank(postEdit.editContent)
                /\ UNCHANGED <<postEdit, posts>>]_vars

\* A padded text and URL have been saved on a Feed of two entries: the Post shows
\* the trimmed values and has left edit mode.
C28_Witness ==
    /\ Len(posts) = 2
    /\ postEdit.req.state = "none"
    /\ ~postEdit.isEditing
    /\ postEdit.currentContent = 2
    /\ postEdit.currentImageUrl = "img"
    /\ postEdit.editContent = Typed(TRUE, 2)

\* The continuation of handleSubmit runs in this step.
SubmitReturns ==
    createPost.req.state \notin {"none", "sent"} /\ createPost'.req.state = "none"

\* C30: handleSubmit clears the draft only when the post was created and leaves it
\* as it is when the creation failed; blank content is never submitted; and
\* isSubmitting is false whenever no submission is awaited.
C30_DraftKept ==
    /\ [](createPost.req.state = "none" => ~createPost.isSubmitting)
    /\ [](createPost.req.state # "none" => createPost.req.content # 0)
    /\ [][(SubmitReturns /\ createPost.req.state # "ok") =>
             /\ createPost'.content = createPost.content
             /\ createPost'.imageUrl = createPost.imageUrl]_vars

(***************************************************************************)
(* Properties of App's session state (SpecApp)                             *)
(***************************************************************************)

\* The continuation of a sign-in of tab c whose upsert failed or threw runs in
\* this step.
FailedSignInReturns(c) ==
    authReqs[c].state \notin {"none", "sent", "ok"} /\ authReqs'[c].state = "none"

\* C29: in every tab the current user is the name localStorage holds under
\* 'truthvote-user' (none when it holds none), and the sign-in modal is shown
\* exactly when no current user is set; a sign-in whose upsert fails or throws
\* changes none of the three; and an operation of the signed-in part of the page
\* runs only while a user is set.
C29_SessionState ==
    /\ [](\A c \in Clients : currentUser[c] = localStorage)
    /\ [](\A c \in Clients : showAuthModal[c] <=> currentUser[c] = NoUser)
    /\ [][\A c \in Clients :
             /\ FailedSignInReturns(c) =>
                   /\ currentUser'[c] = currentUser[c]
                   /\ localStorage' = localStorage
                   /\ showAuthModal'[c] = showAuthModal[c]
             /\ appAlert'[c] # appAlert[c] => currentUser[c] # NoUser]_vars

\* C29 without its localStorage half.
C29_ModalAndFailedSignIn ==
    /\ [](\A c \in Clients : showAuthModal[c] <=> currentUser[c] = NoUser)
    /\ [][\A c \in Clients :
             /\ FailedSignInReturns(c) =>
                   /\ currentUser'[c] = currentUser[c]
                   /\ localStorage' = localStorage
                   /\ showAuthModal'[c] = showAuthModal[c]
             /\ appAlert'[c] # appAlert[c] => currentUser[c] # NoUser]_vars

====
